---- MODULE Spec2Model ----
(***************************************************************************)
(* Model of the account scanner (src/account_scanner.py): the RateLimiter, *)
(* the Sherlock and Reddit sub-scans, and the two entry points that fan    *)
(* them out (ScannerAPI.scan_user and the command line's main_async).      *)
(*                                                                         *)
(* Time is counted in whole seconds.  A stretch of code without an await   *)
(* takes no time; an await is a suspension point and a step of the model.  *)
(***************************************************************************)
EXTENDS Integers, Sequences, FiniteSets, TLC

(* ----------------------------- bounds --------------------------------- *)

\* Number of tasks that may await one RateLimiter at the same time.
MaxCallers == 2

\* Last second of the clock in the rate limiter's specification.
MaxTime == 4

\* Latest second at which the clock may stand when the model starts.
MaxStart == 2

\* rate_per_min values tried; each divides 60, so the delay is whole seconds.
Rates == {30, 60}

Callers == 1..MaxCallers

VARIABLES
  now,            \* time.monotonic(), in seconds
  rate_per_min,   \* ScanConfig.rate_per_min / RateLimiter(rate_per_min)
  last_call,      \* RateLimiter.last_call
  cpc,            \* per caller of wait(): where it is
  wake,           \* per caller: when its asyncio.sleep is due
  doneAt,         \* per caller: time its latest wait() completed, -1 if none
  ownGap,         \* per caller: time between its two latest completions, -1 if < 2
  lastDone,       \* time of the latest completion of wait() by anyone, -1 if none
  allGap,         \* time between the two latest completions by anyone, -1 if < 2
  entry,          \* "api": ScannerAPI.scan_user, "cli": main_async
  mode,           \* ScanConfig.mode
  api_key,        \* ScanConfig.api_key
  client_id,      \* ScanConfig.client_id
  client_secret,  \* ScanConfig.client_secret
  installed,      \* shutil.which("sherlock") is not None
  timeout,        \* ScanConfig.sherlock_timeout, in seconds
  pc,             \* where the entry point is
  tasks,          \* scan_user / main_async: the sub-scans handed to gather
  results,        \* scan_user: the bundle
  cancel_requested, \* the entry point's task was cancelled while in gather
  exit_code,      \* main_async: -1 while running, then the process's exit status
  spc,            \* SherlockScanner.scan: where it is
  proc,           \* the sherlock subprocess: "none", "running", "exited", "killed"
  sres,           \* SherlockScanner.scan: the returned list, None before
  started,        \* SherlockScanner.scan: when wait_for was entered, -1 before
  rpc,            \* RedditScanner.scan: where it is
  session,        \* the asyncpraw Reddit session: "none", "open", "closed"
  items,          \* RedditScanner._fetch_items: its return value
  scores,         \* per item: the mapping _check_toxicity returned, None before
  rnext,          \* _fetch_items: how it leaves: "return", "caught", "raise", "cancel"
  rres,           \* RedditScanner.scan: the returned value, None before
  files,          \* the report files: "absent", "partial" or "complete"
  fn,             \* a function called on its own: its name
  arg,            \* that call's argument
  ret,            \* that call's return value, None before it returns
  answer,         \* _check_toxicity called on its own: what client.post gave
  own_last_call,  \* per RedditScanner: last_call of the RateLimiter its __init__ made
  calls,          \* scan_user: how many times it has been called
  first,          \* scan_user: the bundle its first call returned, None before
  cache,          \* the result cache: key -> (creation timestamp, bundle)
  lastSet,        \* per cache key: the latest set() for it, kept for the properties
  bot,            \* the bot's scan command: where it is
  msgs,           \* the bot's scan command: what it has sent to the requester
  _scan_cooldowns,  \* the slash command's cooldown map: user id -> timestamp
  _cooldown_queue,  \* the cooldown queue: (timestamp, user id) pairs, oldest first
  updated,        \* per user: when update_cooldown was last called for it, -1 if never
  accepted        \* per user: the times at which a slash-command scan was accepted

limiterVars == <<now, rate_per_min, last_call, cpc, wake, doneAt, ownGap, lastDone, allGap>>

configVars == <<entry, mode, api_key, client_id, client_secret, installed, timeout>>

entryVars == <<pc, tasks, results, cancel_requested, exit_code>>

sherlockVars == <<spc, proc, sres, started>>

redditVars == <<rpc, session, items, scores, rnext, rres>>

callVars == <<fn, arg, ret, answer>>

cooldownVars == <<_scan_cooldowns, _cooldown_queue, updated, accepted>>

sideVars == <<own_last_call, calls, first, cache, lastSet, bot, msgs, cooldownVars>>

vars == <<limiterVars, configVars, entryVars, sherlockVars, redditVars, files, callVars, sideVars>>

(* ------------------- Python values and strings ------------------------ *)

\* Python's None and a present value, for fields typed "X | None".
None == <<>>

Some(v) == <<v>>

\* A string is a sequence of one-character strings.
Whitespace == {" ", "\n", "\t"}

\* str.lstrip(chars) / str.rstrip(chars) / str.strip(chars)
RECURSIVE LStrip(_, _)
LStrip(s, chars) ==
  IF s # <<>> /\ Head(s) \in chars THEN LStrip(Tail(s), chars) ELSE s

RECURSIVE RStrip(_, _)
RStrip(s, chars) ==
  IF s # <<>> /\ s[Len(s)] \in chars THEN RStrip(SubSeq(s, 1, Len(s) - 1), chars) ELSE s

Strip(s, chars) == RStrip(LStrip(s, chars), chars)

\* s.startswith(p)
StartsWith(s, p) == Len(s) >= Len(p) /\ SubSeq(s, 1, Len(p)) = p

\* The first index at which p occurs in s, 0 if it does not (str.find + 1).
Find(s, p) ==
  LET hits == {k \in 1..(Len(s) - Len(p) + 1) : SubSeq(s, k, k + Len(p) - 1) = p}
  IN IF hits = {} THEN 0 ELSE CHOOSE k \in hits : \A j \in hits : k <= j

\* p in s
Contains(s, p) == Find(s, p) # 0

\* s.split(p, 1): one part when p does not occur, else the text before the
\* first occurrence and the text after it.
SplitOnce(s, p) ==
  LET k == Find(s, p)
  IN IF k = 0 THEN <<s>>
     ELSE <<SubSeq(s, 1, k - 1), SubSeq(s, k + Len(p), Len(s))>>

\* The ASCII letters, upper case and lower case, in the same order.
UpperCase ==
  <<"A", "B", "C", "D", "E", "F", "G", "H", "I", "J", "K", "L", "M", "N", "O", "P", "Q", "R",
     "S", "T", "U", "V", "W", "X", "Y", "Z">>

LowerCase ==
  <<"a", "b", "c", "d", "e", "f", "g", "h", "i", "j", "k", "l", "m", "n", "o", "p", "q", "r",
     "s", "t", "u", "v", "w", "x", "y", "z">>

\* str.lower(), on ASCII text.
LowerChar(c) ==
  IF \E n \in 1..26 : UpperCase[n] = c
    THEN LowerCase[CHOOSE n \in 1..26 : UpperCase[n] = c]
    ELSE c

LowerIdentity(s) == s

Lower(s) == [k \in 1..Len(s) |-> LowerChar(s[k])]

\* str.splitlines()
RECURSIVE SplitLines(_)
SplitLines(s) ==
  IF s = <<>> THEN <<>>
  ELSE LET k == Find(s, <<"\n">>)
       IN IF k = 0 THEN <<s>>
          ELSE <<SubSeq(s, 1, k - 1)>> \o SplitLines(SubSeq(s, k + 1, Len(s)))

\* Truthiness of an optional string: None and "" are false.
Truthy(v) == v # None /\ v # Some(<<>>)

(* --------------------------- RateLimiter ------------------------------ *)

\* RateLimiter.__init__: self.delay = 60.0 / rate_per_min
delay == 60 \div rate_per_min

\* wait(): elapsed = now - self.last_call
elapsed == now - last_call

\* wait(): if elapsed < self.delay
MustSleepNever(e) == FALSE

MustSleep(e) == e < delay

\* wait(): the argument of asyncio.sleep
SleepTime(e) == delay - e

\* History of completions, kept for the properties below.
Completed(i) ==
  /\ doneAt' = [doneAt EXCEPT ![i] = now]
  /\ ownGap' = [ownGap EXCEPT ![i] = IF doneAt[i] = -1 THEN -1 ELSE now - doneAt[i]]
  /\ lastDone' = now
  /\ allGap' = IF lastDone = -1 THEN -1 ELSE now - lastDone

\* wait() from its call to its first suspension: either it completes at once
\* (self.last_call = time.monotonic()) or it suspends in asyncio.sleep.
\* `from` is the caller's position before the call, `after` the one it has
\* once wait() has returned.
wait_enter(i, from, after) ==
  /\ cpc[i] = from
  /\ IF MustSleep(elapsed)
       THEN /\ cpc' = [cpc EXCEPT ![i] = "sleep"]
            /\ wake' = [wake EXCEPT ![i] = now + SleepTime(elapsed)]
            /\ UNCHANGED <<last_call, doneAt, ownGap, lastDone, allGap>>
       ELSE /\ cpc' = [cpc EXCEPT ![i] = after]
            /\ last_call' = now
            /\ Completed(i)
            /\ UNCHANGED wake

\* wait() after the sleep: self.last_call = time.monotonic().  The event loop
\* resumes a sleeper no earlier than its due time, possibly later.
wait_resume(i, after) ==
  /\ cpc[i] = "sleep"
  /\ now >= wake[i]
  /\ cpc' = [cpc EXCEPT ![i] = after]
  /\ last_call' = now
  /\ Completed(i)
  /\ UNCHANGED wake

\* The clock advances by one second.
Tick(limit) ==
  /\ now < limit
  /\ now' = now + 1

(* ---------------- specification of the rate limiter ------------------- *)

\* No function is called on its own.
CallIdle == fn = "none" /\ arg = <<>> /\ ret = <<>> /\ answer = <<>>

\* No slash command has been given.
CooldownIdle ==
  /\ _scan_cooldowns = <<>>
  /\ _cooldown_queue = <<>>
  /\ updated = <<>>
  /\ accepted = <<>>

\* No second scanner, no repeated call, an empty cache, no bot command.
SideIdle ==
  /\ own_last_call = <<>>
  /\ calls = 0
  /\ first = <<>>
  /\ cache = <<>>
  /\ lastSet = <<>>
  /\ bot = "none"
  /\ msgs = <<>>
  /\ CooldownIdle

\* scan_user and main_async have not been entered.
EntryIdle ==
  /\ entry = "api"
  /\ mode = "both"
  /\ api_key = None /\ client_id = None /\ client_secret = None
  /\ installed = FALSE
  /\ pc = "start"
  /\ tasks = <<>>
  /\ results = [sherlock |-> None, reddit |-> None, errors |-> <<>>]
  /\ cancel_requested = FALSE
  /\ exit_code = -1
  /\ files = [reddit |-> "absent", sherlock |-> "absent"]

\* SherlockScanner.scan has not been called.
SherlockIdle == spc = "idle" /\ proc = "none" /\ sres = None /\ started = -1

\* RedditScanner.scan has not been called.
RedditIdle ==
  /\ rpc = "idle" /\ session = "none" /\ items = None /\ scores = <<>>
  /\ rnext = "none" /\ rres = None

\* No scan is involved in the rate limiter's specification.
ScanIdle ==
  /\ EntryIdle
  /\ timeout = 0
  /\ SherlockIdle
  /\ RedditIdle
  /\ CallIdle
  /\ SideIdle

\* A fresh RateLimiter (last_call = 0.0) shared by the callers; the monotonic
\* clock starts anywhere, before or after the first delay has passed.
LimiterInit ==
  /\ ScanIdle
  /\ rate_per_min \in Rates
  /\ now \in 0..MaxStart
  /\ last_call = 0
  /\ cpc = [i \in Callers |-> "idle"]
  /\ wake = [i \in Callers |-> 0]
  /\ doneAt = [i \in Callers |-> -1]
  /\ ownGap = [i \in Callers |-> -1]
  /\ lastDone = -1
  /\ allGap = -1

\* A task calls limiter.wait().
CallWait(i) ==
  /\ wait_enter(i, "idle", "idle")
  /\ UNCHANGED <<now, rate_per_min, configVars, callVars, sideVars, entryVars, sherlockVars, redditVars, files>>

\* A task sleeping in limiter.wait() is resumed and returns from it.
ResumeWait(i) ==
  /\ wait_resume(i, "idle")
  /\ UNCHANGED <<now, rate_per_min, configVars, callVars, sideVars, entryVars, sherlockVars, redditVars, files>>

LimiterTick ==
  /\ Tick(MaxTime)
  /\ UNCHANGED <<rate_per_min, last_call, cpc, wake, doneAt, ownGap, lastDone, allGap>>
  /\ UNCHANGED <<configVars, callVars, sideVars, entryVars, sherlockVars, redditVars, files>>

LimiterNext ==
  \/ \E i \in Callers : CallWait(i)
  \/ \E i \in Callers : ResumeWait(i)
  \/ LimiterTick

SpecLimiter == LimiterInit /\ [][LimiterNext]_vars

(* ------------------------ exceptions ---------------------------------- *)

\* "except Exception" catches every exception class but those that derive
\* from BaseException alone; asyncio.CancelledError is one of the latter.
IsExceptionAll(kind) == TRUE

IsExceptionNone(kind) == FALSE

IsException(kind) == kind # "CancelledError"

(* ------------------------ SherlockScanner ----------------------------- *)

\* available(): shutil.which("sherlock") is not None
SherlockScanner_available == installed

\* Characters that str.strip(" +[]") removes from a platform name.
Decoration == {" ", "+", "[", "]"}

\* The status _parse_stdout gives every record.
ClaimedAvailable == <<"A", "v", "a", "i", "l", "a", "b", "l", "e">>

Claimed == <<"C", "l", "a", "i", "m", "e", "d">>

\* _parse_stdout, one line: no record (<<>>) or the line's (platform, url).
ParseLine(raw) ==
  LET line == Strip(raw, Whitespace)
      rest == IF Contains(line, <<"]", ":", " ", " ">>)
                THEN SplitOnce(line, <<"]", ":", " ">>)[2]
                ELSE line
      parts == SplitOnce(rest, <<":", " ">>)
      platform == Strip(parts[1], Decoration)
      url == Strip(parts[2], Whitespace)
  IN IF ~Contains(line, <<":", "/", "/">>) \/ ~Contains(line, <<":", " ", " ">>)
       THEN <<>>
     ELSE IF Len(parts) # 2 THEN <<>>
     ELSE IF ~StartsWith(url, <<"h", "t", "t", "p">>) THEN <<>>
     ELSE <<[platform |-> platform, url |-> url]>>

\* _parse_stdout: key = (platform.lower(), url)
DedupKeyExact(platform, url) == <<platform, url>>

DedupKey(platform, url) == <<Lower(platform), url>>

\* _parse_stdout, the loop over the lines with its "seen" set.
RECURSIVE ParseLines(_, _)
ParseLines(lines, seen) ==
  IF lines = <<>> THEN <<>>
  ELSE LET got == ParseLine(Head(lines))
           key == DedupKey(got[1].platform, got[1].url)
       IN IF got = <<>> \/ key \in seen
            THEN ParseLines(Tail(lines), seen)
            ELSE <<[platform |-> got[1].platform, url |-> got[1].url,
                    status |-> Claimed, response_time |-> None]>>
                 \o ParseLines(Tail(lines), seen \cup {key})

_parse_stdout(text) == ParseLines(SplitLines(text), {})

\* _is_claimed: the words that tell an account is not there.
invalid ==
  { <<"n", "o", "t">>,
    <<"a", "v", "a", "i", "l", "a", "b", "l", "e">>,
    <<"i", "n", "v", "a", "l", "i", "d">>,
    <<"u", "n", "c", "h", "e", "c", "k", "e", "d">>,
    <<"u", "n", "k", "n", "o", "w", "n">> }

\* _is_claimed: not any(x in s or s.startswith(x) for x in invalid)
_is_claimed(status) ==
  LET s == Lower(status)
  IN ~(\E x \in invalid : Contains(s, x) \/ StartsWith(s, x))

\* What the sherlock subprocess may print: nothing, one found account in the
\* tool's "[+] Site: url" form, and the same with two blanks after the colon.
LineGitHub == <<"[", "+", "]", " ", "G", ":", " ", "h", "t", "t", "p", ":", "/", "/", "g">>

LineWide == <<"[", "+", "]", " ", "T", ":", " ", " ", "h", "t", "t", "p", ":", "/", "/", "t">>

Stdouts == {<<>>, LineGitHub \o <<"\n">>, LineGitHub \o <<"\n">> \o LineWide \o <<"\n">>}

\* scan(): the list it returns for a captured stdout (lines 322-331).
SherlockResults(stdout) == IF stdout # <<>> THEN _parse_stdout(stdout) ELSE <<>>

\* scan(): an exception of class `kind` is raised inside the outer try block:
\* "except Exception" returns [], anything else leaves scan() as raised.
SherlockRaised(kind) ==
  IF IsException(kind)
    THEN spc' = "done" /\ sres' = Some(<<>>)
    ELSE spc' = (IF kind = "CancelledError" THEN "cancelled" ELSE "failed") /\ UNCHANGED sres

\* Exceptions other than a cancellation that may be raised inside scan()'s try
\* block: by the operating system, or by the decoding and parsing of stdout.
SherlockErrors == {"OSError", "ValueError"}

\* The grace period added to the tool's own timeout.
SHERLOCK_BUFFER == 30

\* scan(): the timeout handed to asyncio.wait_for.
WaitTimeoutNoBuffer == timeout

WaitTimeout == timeout + SHERLOCK_BUFFER

\* await asyncio.create_subprocess_exec(...): the process starts, or the
\* launch fails with an OSError.
SherlockExec ==
  /\ spc = "exec"
  /\ \/ /\ spc' = "communicate"
        /\ proc' = "running"
        /\ started' = now
        /\ UNCHANGED sres
     \/ /\ SherlockRaised("OSError")
        /\ UNCHANGED <<proc, started>>
  /\ UNCHANGED <<limiterVars, configVars, callVars, sideVars, entryVars, redditVars, files>>

\* await asyncio.wait_for(proc.communicate(), timeout + SHERLOCK_BUFFER):
\* the process exits and its output is parsed, or the wait times out and
\* "except asyncio.TimeoutError" kills the process and awaits proc.wait(), or
\* an error is raised: by the operating system while the process runs, or by
\* the decoding and parsing of the output of the process that has exited.
\* `timedOut` tells whether wait_for's timer has fired.
communicate(timedOut) ==
  /\ spc = "communicate"
  /\ \/ \E stdout \in Stdouts :
          /\ proc' = "exited"
          /\ spc' = "done"
          /\ sres' = Some(SherlockResults(stdout))
     \/ /\ timedOut
        /\ proc' = "killed"
        /\ spc' = "killwait"
        /\ UNCHANGED sres
     \/ \E kind \in SherlockErrors :
          /\ SherlockRaised(kind)
          /\ proc' = (IF kind = "OSError" THEN proc ELSE "exited")
  /\ UNCHANGED started

\* The step above where the clock is not followed: the timer may have fired.
SherlockCommunicate ==
  /\ communicate(TRUE)
  /\ UNCHANGED <<limiterVars, configVars, callVars, sideVars, entryVars, redditVars, files>>

\* The step above where the clock is followed: the timer fires no earlier
\* than WaitTimeout seconds after wait_for was entered.
SherlockCommunicateTimed ==
  /\ communicate(now >= started + WaitTimeout)
  /\ UNCHANGED <<limiterVars, configVars, callVars, sideVars, entryVars, redditVars, files>>

\* await proc.wait() returns; stdout is b"" and scan() returns [].  An error
\* raised by it is caught by the outer "except Exception".
SherlockKilled ==
  /\ spc = "killwait"
  /\ \/ /\ spc' = "done"
        /\ sres' = Some(SherlockResults(<<>>))
     \/ \E kind \in SherlockErrors : SherlockRaised(kind)
  /\ UNCHANGED <<proc, started, limiterVars, configVars, callVars, sideVars, entryVars, redditVars, files>>

SherlockRunning == spc \in {"exec", "communicate", "killwait"}

\* The task running scan() is cancelled at the await it is suspended in.
SherlockCancel ==
  IF SherlockRunning THEN SherlockRaised("CancelledError") ELSE UNCHANGED <<spc, sres>>

(* ------------------------- RedditScanner ------------------------------ *)

\* ScanConfig.threshold, in hundredths (the default 0.7).
threshold == 70

\* scan(): "content": text[: 500]
ContentLimit == 500

\* The four ATTRIBUTES requested from the Perspective API.
ATTRIBUTES == {"TOXICITY", "INSULT", "PROFANITY", "SEXUALLY_EXPLICIT"}

\* Most items _fetch_items returns in the model.
MaxItems == 2

ItemIds == 1..MaxItems

\* Items the Reddit API may return: a comment whose body is blank and a post
\* (title, newline, selftext).
ItemSamples ==
  { [kind |-> "comment", text |-> <<" ">>],
    [kind |-> "post", text |-> <<"b", "\n", "c">>] }

ItemLists == UNION {[1..n -> ItemSamples] : n \in 0..MaxItems}

\* Score mappings a well-formed Perspective answer may carry, in hundredths.
ScoreSamples ==
  { [a \in {"TOXICITY", "INSULT"} |-> IF a = "TOXICITY" THEN 70 ELSE 10],
    [a \in {"TOXICITY", "PROFANITY"} |-> IF a = "TOXICITY" THEN 69 ELSE 5],
    [a \in {} |-> 0] }

NoScores == [a \in {} |-> 0]

\* Answers to client.post: a status of 200 or another one, with a body of the
\* expected shape, which carries scores, or of another shape.
Responses ==
  [status : {200, 500}, wellformed : {TRUE}, scores : ScoreSamples]
    \cup [status : {200, 500}, wellformed : {FALSE}, scores : {NoScores}]

\* How client.post ends: with an answer, or with an error of the transport.
Outcomes ==
  {[raised |-> "none", resp |-> r] : r \in Responses}
    \cup {[raised |-> "TransportError", resp |-> <<>>]}

\* _check_toxicity: what it returns for an answer (lines 404-412); reading a
\* body of another shape raises inside the try block and is passed over.
ResponseScoresAnyStatus(resp) == IF resp.wellformed THEN resp.scores ELSE NoScores

ResponseScores(resp) ==
  IF resp.status = 200 /\ resp.wellformed THEN resp.scores ELSE NoScores

\* _check_toxicity: "if not text.strip()"
IsBlankEmptyOnly(text) == text = <<>>

IsBlank(text) == Strip(text, Whitespace) = <<>>

\* scan(): any(s >= self.config.threshold for s in scores.values())
IsFlaggedStrict(sc) == \E a \in DOMAIN sc : sc[a] > threshold

IsFlaggedAll(sc) == \A a \in DOMAIN sc : sc[a] >= threshold

IsFlagged(sc) == \E a \in DOMAIN sc : sc[a] >= threshold

\* scan(): text[: 500]
Truncate(text) == SubSeq(text, 1, IF Len(text) < ContentLimit THEN Len(text) ELSE ContentLimit)

\* scan(): zip(items, results) pairs the k-th item with the k-th result of
\* asyncio.gather, which is what the k-th _check_toxicity returned.
ScoresByContent(its, scs, k) ==
  scs[CHOOSE j \in 1..Len(its) :
        its[j].text = its[k].text /\ \A h \in 1..(j - 1) : its[h].text # its[k].text]

ZipScores(its, scs, k) == scs[k]

\* scan(): the flagged list built from the items and their scores, in order.
RECURSIVE Flagged(_, _, _)
Flagged(its, scs, k) ==
  IF k > Len(its) THEN <<>>
  ELSE (IF IsFlagged(ZipScores(its, scs, k)[1])
          THEN <<[type |-> its[k].kind, content |-> Truncate(its[k].text),
                  scores |-> ZipScores(its, scs, k)[1]]>>
          ELSE <<>>)
       \o Flagged(its, scs, k + 1)

\* _fetch_items: "return items if items else None"
FetchResultRaw(l) == Some(l)

FetchResult(l) == IF l # <<>> THEN Some(l) ELSE None

\* scan(): "if not items"
NothingFetched == items = None \/ items = Some(<<>>)

\* Exceptions other than a cancellation that the Reddit API may raise inside
\* _fetch_items' try block: those of asyncprawcore, and any other.
FetchErrors == {"AsyncPrawcoreException", "ValueError"}

\* _fetch_items: how it will leave after an exception of class `kind`: the
\* two "except" clauses log it and fall through to "return None" (line 458);
\* any other class goes on to the caller once "finally" has run.
FetchLeaveAfter(kind) == IF IsException(kind) THEN "caught" ELSE "raise"

\* _fetch_items: the session after "await reddit.close()".
SessionLeftOpen == "open"

SessionAfterClose == "closed"

\* _fetch_items: Reddit(...) is constructed, or its construction raises, which
\* "except Exception" turns into None with no session to close.
RedditOpen ==
  /\ rpc = "open"
  /\ \/ /\ session' = "open"
        /\ rpc' = "fetch"
        /\ UNCHANGED <<rres, rnext>>
     \/ \E kind \in FetchErrors :
          /\ rnext' = FetchLeaveAfter(kind)
          /\ rpc' = (IF rnext' = "caught" THEN "done" ELSE "failed")
          /\ rres' = None
          /\ UNCHANGED session
  /\ UNCHANGED <<items, scores, limiterVars, configVars, callVars, sideVars, entryVars, sherlockVars, files>>

\* _fetch_items: the listing of comments and submissions ends, with items,
\* with none, or with an error of the Reddit API; "finally" then awaits
\* reddit.close().
RedditFetch ==
  /\ rpc = "fetch"
  /\ \/ \E l \in ItemLists :
          /\ items' = FetchResult(l)
          /\ rnext' = "return"
     \/ \E kind \in FetchErrors :
          /\ items' = None
          /\ rnext' = FetchLeaveAfter(kind)
  /\ rpc' = "closing"
  /\ UNCHANGED <<session, scores, rres, limiterVars, configVars, callVars, sideVars, entryVars, sherlockVars, files>>

\* _fetch_items: reddit.close() returns and _fetch_items is left; scan() then
\* returns None for no items (lines 483-485), or opens the HTTP client and
\* hands one _check_toxicity per item to asyncio.gather (lines 488-496).
RedditClosed ==
  /\ rpc = "closing"
  /\ session' = SessionAfterClose
  /\ CASE rnext = "cancel" -> /\ rpc' = "cancelled"
                              /\ UNCHANGED <<rres, scores, cpc>>
       [] rnext = "raise" -> /\ rpc' = "failed"
                             /\ UNCHANGED <<rres, scores, cpc>>
       [] rnext \in {"return", "caught"} /\ NothingFetched ->
                             /\ rpc' = "done"
                             /\ rres' = None
                             /\ UNCHANGED <<scores, cpc>>
       [] OTHER -> /\ rpc' = "classify"
                   /\ scores' = [k \in 1..Len(items[1]) |-> None]
                   /\ cpc' = [k \in ItemIds |-> IF k <= Len(items[1]) THEN "ready" ELSE "none"]
                   /\ UNCHANGED rres
  /\ UNCHANGED <<items, rnext, now, rate_per_min, last_call, wake, doneAt, ownGap, lastDone, allGap>>
  /\ UNCHANGED <<configVars, callVars, sideVars, entryVars, sherlockVars, files>>

\* The tasks gather creates are first run in the order of their creation,
\* each up to its first suspension, before any of them is resumed.
Starting == \E k \in DOMAIN cpc : cpc[k] = "ready"

\* _check_toxicity from its start to its first suspension: blank text returns
\* {} at once; otherwise limiter.wait() is entered and, if it does not have to
\* sleep, client.post is issued.
ClassifyBegin(i) ==
  /\ rpc = "classify"
  /\ cpc[i] = "ready"
  /\ \A k \in 1..(i - 1) : cpc[k] # "ready"
  /\ IF IsBlank(items[1][i].text)
       THEN /\ cpc' = [cpc EXCEPT ![i] = "done"]
            /\ scores' = [scores EXCEPT ![i] = Some(NoScores)]
            /\ UNCHANGED <<last_call, wake, doneAt, ownGap, lastDone, allGap>>
       ELSE /\ wait_enter(i, "ready", "post")
            /\ UNCHANGED scores
  /\ UNCHANGED <<now, rate_per_min, rpc, session, items, rnext, rres>>
  /\ UNCHANGED <<configVars, callVars, sideVars, entryVars, sherlockVars, files>>

\* _check_toxicity: the sleep inside limiter.wait() ends; client.post is issued.
ClassifyResume(i) ==
  /\ rpc = "classify"
  /\ ~Starting
  /\ wait_resume(i, "post")
  /\ UNCHANGED <<now, rate_per_min, redditVars, configVars, callVars, sideVars, entryVars, sherlockVars, files>>

\* _check_toxicity: an exception of class `kind` reaches the task at the await
\* it is suspended in.  Only client.post is inside "try ... except Exception:
\* pass", after which {} is returned; the sleep in limiter.wait() is not.
ClassifyPcAfter(i, kind) ==
  IF cpc[i] = "post" /\ IsException(kind) THEN "done"
  ELSE IF cpc[i] \in {"ready", "sleep", "post"}
    THEN (IF kind = "CancelledError" THEN "cancelled" ELSE "failed")
  ELSE cpc[i]

ClassifyScoreAfter(i, kind) ==
  IF cpc[i] = "post" /\ IsException(kind) THEN Some(NoScores) ELSE scores[i]

\* _check_toxicity: payload = {"comment": {"text": text}, ...}: the text sent.
PayloadTruncated(text) == Truncate(text)

Payload(text) == text

\* _check_toxicity: client.post ends as `o` tells, and the call returns.
post(i, o) ==
  /\ cpc[i] = "post"
  /\ IF o.raised = "none"
       THEN /\ scores' = [scores EXCEPT ![i] = Some(ResponseScores(o.resp))]
            /\ cpc' = [cpc EXCEPT ![i] = "done"]
       ELSE /\ scores' = [scores EXCEPT ![i] = ClassifyScoreAfter(i, o.raised)]
            /\ cpc' = [cpc EXCEPT ![i] = ClassifyPcAfter(i, o.raised)]

\* _check_toxicity: client.post ends, with an answer or a transport error.
ClassifyResponse(i) ==
  /\ rpc = "classify"
  /\ ~Starting
  /\ \E o \in Outcomes : post(i, o)
  /\ UNCHANGED <<now, rate_per_min, last_call, wake, doneAt, ownGap, lastDone, allGap>>
  /\ UNCHANGED <<rpc, session, items, rnext, rres, configVars, callVars, sideVars, entryVars, sherlockVars, files>>

\* The same step, with the item, the text sent and the way client.post ended
\* kept in `answer`, in the order in which the requests end.
ClassifyAnswered(i) ==
  /\ rpc = "classify"
  /\ ~Starting
  /\ \E o \in Outcomes :
       /\ post(i, o)
       /\ answer' = Append(answer, [item |-> i, sent |-> Payload(items[1][i].text),
                                    raised |-> o.raised, resp |-> o.resp])
  /\ UNCHANGED <<now, rate_per_min, last_call, wake, doneAt, ownGap, lastDone, allGap>>
  /\ UNCHANGED <<rpc, session, items, rnext, rres, configVars, fn, arg, ret, sideVars, entryVars, sherlockVars, files>>

\* scan(): every _check_toxicity has returned; the flagged list is built; an
\* empty one is returned as it is, another is first written to the CSV file.
RedditFilter ==
  /\ rpc = "classify"
  /\ \A k \in 1..Len(items[1]) : cpc[k] = "done"
  /\ IF Flagged(items[1], scores, 1) = <<>>
       THEN rpc' = "done" /\ rres' = Some(<<>>)
       ELSE rpc' = "write" /\ UNCHANGED rres
  /\ UNCHANGED <<session, items, scores, rnext, limiterVars, configVars, callVars, sideVars, entryVars, sherlockVars, files>>

\* scan(): aiofiles.open(output_reddit, "w") and f.write: the report is
\* written and the flagged list returned, or an OSError leaves scan() at the
\* open (nothing written) or at the write (a file cut short).
RedditWrite ==
  /\ rpc = "write"
  /\ \/ /\ files' = [files EXCEPT !.reddit = "complete"]
        /\ rpc' = "done"
        /\ rres' = Some(Flagged(items[1], scores, 1))
     \/ /\ rpc' = "failed"
        /\ UNCHANGED <<files, rres>>
     \/ /\ files' = [files EXCEPT !.reddit = "partial"]
        /\ rpc' = "failed"
        /\ UNCHANGED rres
  /\ UNCHANGED <<session, items, scores, rnext, limiterVars, configVars, callVars, sideVars, entryVars, sherlockVars>>

RedditRunning == rpc \in {"open", "fetch", "closing", "classify", "write"}

\* The task running RedditScanner.scan() is cancelled at the await it is
\* suspended in: in _fetch_items "finally" still awaits reddit.close(); in the
\* gather of the classifications every unfinished one is cancelled in turn; in
\* the report's write the file may be left cut short.
RedditCancel ==
  /\ rpc' = (IF rpc = "fetch" THEN "closing"
             ELSE IF RedditRunning THEN "cancelled" ELSE rpc)
  /\ rnext' = (IF rpc = "fetch" THEN "cancel" ELSE rnext)
  /\ cpc' = (IF rpc = "classify"
               THEN [k \in DOMAIN cpc |-> ClassifyPcAfter(k, "CancelledError")]
               ELSE cpc)
  /\ scores' = (IF rpc = "classify"
                  THEN [k \in DOMAIN scores |-> ClassifyScoreAfter(k, "CancelledError")]
                  ELSE scores)
  /\ \/ UNCHANGED files
     \/ rpc = "write" /\ files' = [files EXCEPT !.reddit = "partial"]
  /\ UNCHANGED <<session, items, rres>>

(* --------------------- scan_user and main_async ----------------------- *)

\* config.mode in ("sherlock", "both") / config.mode in ("reddit", "both")
WantsSherlock == mode \in {"sherlock", "both"}

WantsReddit == mode \in {"reddit", "both"}

\* all((config.api_key, config.client_id, config.client_secret))
HasCredentialsAny == Truthy(api_key) \/ Truthy(client_id) \/ Truthy(client_secret)

HasCredentials == Truthy(api_key) /\ Truthy(client_id) /\ Truthy(client_secret)

\* The sub-scans appended to `tasks`, in the order of the code.
SherlockEligibleAlways == WantsSherlock

SherlockEligible == WantsSherlock /\ SherlockScanner_available

RedditEligible == WantsReddit /\ HasCredentials

EligibleTasks ==
  (IF SherlockEligible THEN <<"sherlock">> ELSE <<>>)
    \o (IF RedditEligible THEN <<"reddit">> ELSE <<>>)

\* scan_user: the errors appended before the sub-scans start (lines 588-602).
ConfigErrorsNoFallback ==
  (IF WantsSherlock /\ ~SherlockScanner_available THEN <<"Sherlock not installed">> ELSE <<>>)
    \o (IF WantsReddit /\ ~HasCredentials /\ mode = "reddit"
          THEN <<"Reddit mode requires API credentials">> ELSE <<>>)

ConfigErrors ==
  (IF WantsSherlock /\ ~SherlockScanner_available THEN <<"Sherlock not installed">> ELSE <<>>)
    \o (IF WantsReddit /\ ~HasCredentials /\ mode = "reddit"
          THEN <<"Reddit mode requires API credentials">> ELSE <<>>)
    \o (IF EligibleTasks = <<>> THEN <<"No valid scan modes configured">> ELSE <<>>)

InTasks(t, ts) == \E k \in 1..Len(ts) : ts[k] = t

\* asyncio.gather starts the sub-scans of `ts`.
StartTasks(ts) ==
  /\ spc' = (IF InTasks("sherlock", ts) THEN "exec" ELSE spc)
  /\ rpc' = (IF InTasks("reddit", ts) THEN "open" ELSE rpc)

\* scan_user up to its await of asyncio.gather, or to its early return.
ScanUserStart ==
  /\ entry = "api"
  /\ pc = "start"
  /\ tasks' = EligibleTasks
  /\ results' = [results EXCEPT !.errors = ConfigErrors]
  /\ pc' = (IF EligibleTasks = <<>> THEN "returned" ELSE "gather")
  /\ StartTasks(EligibleTasks)
  /\ UNCHANGED <<cancel_requested, exit_code, proc, sres, started, session, items, scores, rnext, rres>>
  /\ UNCHANGED <<limiterVars, configVars, callVars, sideVars, files>>

\* main_async up to its await of asyncio.gather, or to sys.exit(message),
\* which ends the process with status 1.
MainStart ==
  /\ entry = "cli"
  /\ pc = "start"
  /\ IF (WantsReddit /\ ~HasCredentials /\ mode = "reddit") \/ EligibleTasks = <<>>
       THEN /\ pc' = "exited"
            /\ exit_code' = 1
            /\ UNCHANGED <<tasks, spc, rpc>>
       ELSE /\ pc' = "gather"
            /\ tasks' = EligibleTasks
            /\ StartTasks(EligibleTasks)
            /\ UNCHANGED exit_code
  /\ UNCHANGED <<results, cancel_requested, proc, sres, started, session, items, scores, rnext, rres>>
  /\ UNCHANGED <<limiterVars, configVars, callVars, sideVars, files>>

\* A sub-scan's task has ended: returned, raised, or been cancelled.
TaskEnded(t) ==
  IF t = "sherlock" THEN spc \in {"done", "failed", "cancelled"}
  ELSE rpc \in {"done", "failed", "cancelled"}

\* gather(..., return_exceptions=True) is done when every task has ended.
GatherDone == \A k \in 1..Len(tasks) : TaskEnded(tasks[k])

\* isinstance(result, Exception), for the entry of `completed` of sub-scan t.
IsFailureNever(t) == FALSE

IsFailure(t) == IF t = "sherlock" THEN spc = "failed" ELSE rpc = "failed"

\* The entry of `completed` of sub-scan t when it is no Exception.
TaskValueOrEmpty(t) ==
  LET v == IF t = "sherlock" THEN sres ELSE rres
  IN IF v = None THEN Some(<<>>) ELSE v

TaskValue(t) == IF t = "sherlock" THEN sres ELSE rres

\* scan_user, lines 605-609: the bundle's field of sub-scan t.
FieldAfterSwapped(t) ==
  LET o == IF t = "sherlock" THEN "reddit" ELSE "sherlock"
  IN IF InTasks(o, tasks) /\ ~IsFailure(o) THEN TaskValue(o) ELSE results[t]

FieldAfter(t) ==
  IF InTasks(t, tasks) /\ ~IsFailure(t) THEN TaskValue(t) ELSE results[t]

\* scan_user, lines 605-609: the errors appended for the failed sub-scans.
FailureErrorsSherlockOnly ==
  IF InTasks("sherlock", tasks) /\ IsFailure("sherlock") THEN <<"sherlock failed">> ELSE <<>>

FailureErrors ==
  (IF InTasks("sherlock", tasks) /\ IsFailure("sherlock") THEN <<"sherlock failed">> ELSE <<>>)
    \o (IF InTasks("reddit", tasks) /\ IsFailure("reddit") THEN <<"reddit failed">> ELSE <<>>)

\* scan_user after gather: the bundle is assembled and returned.
ScanUserGathered ==
  /\ entry = "api"
  /\ pc = "gather"
  /\ ~cancel_requested
  /\ GatherDone
  /\ results' = [sherlock |-> FieldAfter("sherlock"),
                 reddit |-> FieldAfter("reddit"),
                 errors |-> results.errors \o FailureErrors]
  /\ pc' = "returned"
  /\ UNCHANGED <<tasks, cancel_requested, exit_code>>
  /\ UNCHANGED <<limiterVars, configVars, callVars, sideVars, sherlockVars, redditVars, files>>

\* main_async after gather: a result that is a non-empty list whose first
\* element has a "platform" key is written to output_sherlock.
MainGathered ==
  /\ entry = "cli"
  /\ pc = "gather"
  /\ ~cancel_requested
  /\ GatherDone
  /\ IF InTasks("sherlock", tasks) /\ ~IsFailure("sherlock") /\ sres # None /\ sres # Some(<<>>)
       THEN pc' = "save" /\ UNCHANGED exit_code
       ELSE pc' = "exited" /\ exit_code' = 0
  /\ UNCHANGED <<tasks, results, cancel_requested>>
  /\ UNCHANGED <<limiterVars, configVars, callVars, sideVars, sherlockVars, redditVars, files>>

\* main_async: aiofiles.open(output_sherlock, "wb") and f.write succeed, or
\* an OSError ends the process with a traceback.
MainSave ==
  /\ pc = "save"
  /\ pc' = "exited"
  /\ \/ files' = [files EXCEPT !.sherlock = "complete"] /\ exit_code' = 0
     \/ UNCHANGED files /\ exit_code' = 1
     \/ files' = [files EXCEPT !.sherlock = "partial"] /\ exit_code' = 1
  /\ UNCHANGED <<tasks, results, cancel_requested>>
  /\ UNCHANGED <<limiterVars, configVars, callVars, sideVars, sherlockVars, redditVars>>

\* The entry point's task is cancelled while it awaits gather (the caller's
\* asyncio.wait_for timing out, or an interrupt): gather cancels every
\* sub-scan that has not ended.
Cancel ==
  /\ pc = "gather"
  /\ ~cancel_requested
  /\ cancel_requested' = TRUE
  /\ SherlockCancel
  /\ RedditCancel
  /\ UNCHANGED <<pc, tasks, results, exit_code, proc, started>>
  /\ UNCHANGED <<now, rate_per_min, last_call, wake, doneAt, ownGap, lastDone, allGap, configVars, callVars, sideVars>>

\* The cancelled gather ends once its sub-scans have, and CancelledError
\* leaves the entry point; main() turns an interrupt into exit status 130.
EntryCancelled ==
  /\ pc = "gather"
  /\ cancel_requested
  /\ GatherDone
  /\ pc' = "cancelled"
  /\ exit_code' = (IF entry = "cli" THEN 130 ELSE exit_code)
  /\ UNCHANGED <<tasks, results, cancel_requested>>
  /\ UNCHANGED <<limiterVars, configVars, callVars, sideVars, sherlockVars, redditVars, files>>

(* ------------------- specification of a scan -------------------------- *)

\* Seconds the clock may advance while a scan classifies its items.
MaxScanTime == 2

Modes == {"sherlock", "reddit", "both", "other"}

\* A credential is absent, empty or set.
CredValues == {None, Some(<<>>), Some(<<"k">>)}

Init ==
  /\ entry \in {"api", "cli"}
  /\ mode \in (IF entry = "cli" THEN Modes \ {"other"} ELSE Modes)
  /\ api_key \in CredValues
  /\ client_id \in CredValues
  /\ client_secret \in CredValues
  /\ installed \in BOOLEAN
  /\ timeout = 0
  /\ rate_per_min \in Rates
  /\ now = MaxStart
  /\ last_call = 0
  /\ cpc = [k \in ItemIds |-> "none"]
  /\ wake = [k \in ItemIds |-> 0]
  /\ doneAt = [k \in ItemIds |-> -1]
  /\ ownGap = [k \in ItemIds |-> -1]
  /\ lastDone = -1
  /\ allGap = -1
  /\ pc = "start"
  /\ tasks = <<>>
  /\ results = [sherlock |-> None, reddit |-> None, errors |-> <<>>]
  /\ cancel_requested = FALSE
  /\ exit_code = -1
  /\ SherlockIdle
  /\ RedditIdle
  /\ files = [reddit |-> "absent", sherlock |-> "absent"]
  /\ CallIdle
  /\ SideIdle

\* Time passes while the classifications wait on the rate limiter.
ScanTick ==
  /\ rpc = "classify"
  /\ ~Starting
  /\ Tick(MaxStart + MaxScanTime)
  /\ UNCHANGED <<rate_per_min, last_call, cpc, wake, doneAt, ownGap, lastDone, allGap>>
  /\ UNCHANGED <<configVars, callVars, sideVars, entryVars, sherlockVars, redditVars, files>>

Next ==
  \/ ScanUserStart
  \/ MainStart
  \/ SherlockExec
  \/ SherlockCommunicate
  \/ SherlockKilled
  \/ RedditOpen
  \/ RedditFetch
  \/ RedditClosed
  \/ \E i \in ItemIds : ClassifyBegin(i)
  \/ \E i \in ItemIds : ClassifyResume(i)
  \/ \E i \in ItemIds : ClassifyResponse(i)
  \/ RedditFilter
  \/ RedditWrite
  \/ ScanUserGathered
  \/ MainGathered
  \/ MainSave
  \/ Cancel
  \/ EntryCancelled
  \/ ScanTick

Spec == Init /\ [][Next]_vars

(* ------------ specification of the enumeration on its own ------------ *)

\* Largest sherlock_timeout tried, in seconds.
MaxTimeout == 1

Timeouts == 0..MaxTimeout

\* A RateLimiter nobody has used, with its callers `ids` at position `at`.
LimiterFresh(ids, at) ==
  /\ last_call = 0
  /\ cpc = [i \in ids |-> at]
  /\ wake = [i \in ids |-> 0]
  /\ doneAt = [i \in ids |-> -1]
  /\ ownGap = [i \in ids |-> -1]
  /\ lastDone = -1
  /\ allGap = -1

\* SherlockScanner().scan(username, timeout, verbose) has just been called.
SherlockInit ==
  /\ EntryIdle
  /\ RedditIdle
  /\ CallIdle
  /\ SideIdle
  /\ rate_per_min = 60
  /\ LimiterFresh(ItemIds, "none")
  /\ now \in 0..MaxStart
  /\ timeout \in Timeouts
  /\ spc = "exec" /\ proc = "none" /\ sres = None /\ started = -1

\* Time passes while scan() is suspended, until well after the timer is due.
SherlockTick ==
  /\ SherlockRunning
  /\ Tick(MaxStart + MaxTimeout + SHERLOCK_BUFFER + 1)
  /\ UNCHANGED <<rate_per_min, last_call, cpc, wake, doneAt, ownGap, lastDone, allGap>>
  /\ UNCHANGED <<configVars, callVars, sideVars, entryVars, sherlockVars, redditVars, files>>

SherlockNext ==
  \/ SherlockExec
  \/ SherlockCommunicateTimed
  \/ SherlockKilled
  \/ SherlockTick

SpecSherlock == SherlockInit /\ [][SherlockNext]_vars

(* -------- specification of the parser and the status test ------------- *)

\* Most lines of a text handed to _parse_stdout.
MaxLines == 3

\* Lines of the tool's output: the three of test_sherlock_parse_stdout (one
\* blank after the colon), and found accounts with two blanks after the colon,
\* one of them the same account again in another letter case.
LineTestGitHub ==
  <<"[", "+", "]", " ", "G", "i", "t", "H", "u", "b", ":", " ", "h", "t", "t", "p", "s", ":",
     "/", "/", "g", "i", "t", "h", "u", "b", ".", "c", "o", "m", "/", "t", "e", "s", "t">>

LineTestTwitter ==
  <<"[", "+", "]", " ", "T", "w", "i", "t", "t", "e", "r", ":", " ", "h", "t", "t", "p", "s",
     ":", "/", "/", "t", "w", "i", "t", "t", "e", "r", ".", "c", "o", "m", "/", "t", "e", "s",
     "t">>

LineTestFacebook ==
  <<"[", "-", "]", " ", "F", "a", "c", "e", "b", "o", "o", "k", ":", " ", "N", "o", "t", " ",
     "F", "o", "u", "n", "d">>

LineGitHubWide ==
  <<"[", "+", "]", " ", "G", "i", "t", "H", "u", "b", ":", " ", " ", "h", "t", "t", "p", "s",
     ":", "/", "/", "g", "i", "t", "h", "u", "b", ".", "c", "o", "m", "/", "t", "e", "s", "t">>

LineGithubBare ==
  <<"g", "i", "t", "h", "u", "b", ":", " ", " ", "h", "t", "t", "p", "s", ":", "/", "/", "g",
     "i", "t", "h", "u", "b", ".", "c", "o", "m", "/", "t", "e", "s", "t">>

LineTwitterWide ==
  <<"[", "+", "]", " ", "T", "w", "i", "t", "t", "e", "r", ":", " ", " ", "h", "t", "t", "p",
     "s", ":", "/", "/", "t", "w", "i", "t", "t", "e", "r", ".", "c", "o", "m", "/", "t", "e",
     "s", "t">>

LineSamples ==
  {LineTestGitHub, LineTestTwitter, LineTestFacebook, LineGitHubWide, LineGithubBare,
   LineTwitterWide}

\* "\n".join(lines)
RECURSIVE JoinLines(_)
JoinLines(ls) ==
  IF ls = <<>> THEN <<>>
  ELSE IF Len(ls) = 1 THEN ls[1]
  ELSE ls[1] \o <<"\n">> \o JoinLines(Tail(ls))

Texts == {JoinLines(ls) : ls \in UNION {[1..n -> LineSamples] : n \in 0..MaxLines}}

\* A letter in both letter cases; any other character alone.
BothCases(c) ==
  {c} \cup {UpperCase[n] : n \in {m \in 1..26 : c \in {UpperCase[m], LowerCase[m]}}}
      \cup {LowerCase[n] : n \in {m \in 1..26 : c \in {UpperCase[m], LowerCase[m]}}}

\* A text in every mix of letter cases.
RECURSIVE Cases(_)
Cases(s) ==
  IF s = <<>> THEN {<<>>}
  ELSE {<<c>> \o t : c \in BothCases(Head(s)), t \in Cases(Tail(s))}

\* The statuses of test_sherlock_is_claimed and test_sherlock_status_detection.
StatusClaimed == <<"C", "l", "a", "i", "m", "e", "d">>

StatusFound == <<"F", "o", "u", "n", "d">>

StatusFoundBang == <<"F", "o", "u", "n", "d", "!">>

StatusNotFound == <<"N", "o", "t", " ", "F", "o", "u", "n", "d">>

StatusAvailable == <<"A", "v", "a", "i", "l", "a", "b", "l", "e">>

StatusInvalid == <<"I", "n", "v", "a", "l", "i", "d">>

StatusInvalidUsername == <<"I", "n", "v", "a", "l", "i", "d", " ", "U", "s", "e", "r", "n", "a", "m", "e">>

StatusUnchecked == <<"U", "n", "c", "h", "e", "c", "k", "e", "d">>

StatusUnknown == <<"U", "n", "k", "n", "o", "w", "n">>

StatusAnother == <<"A", "n", "o", "t", "h", "e", "r">>

\* Statuses handed to _is_claimed: the ones above in every mix of letter
\* cases (the longest in three), the empty status, and a word that holds
\* "not" in its middle.
Statuses ==
  UNION {Cases(s) : s \in {StatusClaimed, StatusFound, StatusFoundBang, StatusNotFound,
                           StatusAvailable, StatusInvalid, StatusUnchecked, StatusUnknown}}
    \cup {StatusInvalidUsername, Lower(StatusInvalidUsername),
          [k \in 1..Len(StatusInvalidUsername) |->
             CHOOSE c \in BothCases(StatusInvalidUsername[k]) :
               c = LowerChar(c) => BothCases(c) = {c}]}
    \cup {<<>>, StatusAnother}

(* --------------- the command line and the report paths ---------------- *)

Digits == <<"0", "1", "2", "3", "4", "5", "6", "7", "8", "9">>

\* str(n), for an n >= 0
RECURSIVE Str(_)
Str(n) ==
  IF n < 10 THEN <<Digits[n + 1]>> ELSE Str(n \div 10) \o <<Digits[(n % 10) + 1]>>

\* The characters the pattern [^\w\-] leaves alone, among the ASCII ones:
\* letters, digits, "_" and "-".
WordChars ==
  {UpperCase[n] : n \in 1..26} \cup {LowerCase[n] : n \in 1..26}
    \cup {Digits[n] : n \in 1..10} \cup {"_", "-"}

\* The cog's safe_username = re.sub(r"[^\w\-]", "_", username)
safe_username(username) ==
  [k \in 1..Len(username) |-> IF username[k] \in WordChars THEN username[k] ELSE "_"]

\* str(Path("./scans"))
SCANS_DIR == <<"s", "c", "a", "n", "s">>

\* dir / name, of pathlib: an absolute name stands for itself.
PathJoin(dir, name) ==
  IF StartsWith(name, <<"/">>) THEN name ELSE dir \o <<"/">> \o name

\* path.parent, for a path of more than one component
RECURSIVE Parent(_)
Parent(path) ==
  IF path = <<>> THEN <<>>
  ELSE IF path[Len(path)] = "/" THEN SubSeq(path, 1, Len(path) - 1)
  ELSE Parent(SubSeq(path, 1, Len(path) - 1))

\* ScanConfig.sherlock_timeout when the caller gives none
sherlock_timeout == 60

\* SherlockScanner.scan: the argument list handed to create_subprocess_exec.
cmd(username, tmo, output_dir) ==
  <<<<"s", "h", "e", "r", "l", "o", "c", "k">>, username, <<"-", "-", "t", "i", "m", "e", "o", "u", "t">>, Str(tmo), <<"-", "-", "n", "o", "-", "c", "o", "l", "o", "r">>, <<"-", "-", "p", "r", "i", "n", "t", "-", "f", "o", "u", "n", "d">>>>
    \o (IF output_dir # None
          THEN <<<<"-", "-", "o", "u", "t", "p", "u", "t">>, PathJoin(output_dir[1], username \o <<".", "t", "x", "t">>)>>
          ELSE <<>>)

\* The cog's scan command: the two report paths of its ScanConfig, and the
\* argument list SherlockScanner.scan builds when scan_user hands it the
\* username and the parent of output_sherlock.
BotScan(username) ==
  LET output_reddit == PathJoin(SCANS_DIR, safe_username(username) \o <<"_", "r", "e", "d", "d", "i", "t", ".", "c", "s", "v">>)
      output_sherlock == PathJoin(SCANS_DIR, safe_username(username) \o <<"_", "s", "h", "e", "r", "l", "o", "c", "k", ".", "j", "s", "o", "n">>)
  IN [output_reddit |-> output_reddit,
      output_sherlock |-> output_sherlock,
      cmd |-> cmd(username, sherlock_timeout, Some(Parent(output_sherlock)))]

\* Usernames given to the scan command: two made of word characters, one that
\* climbs out of the directory, an absolute one, one with a blank, and one
\* that reads as an option.
Usernames ==
  { <<"a", "b">>, <<"a", "-", "b", "_", "1">>, <<".", ".", "/", "x">>, <<"/", "x">>,
    <<"a", " ", "b">>, <<"-", "h">> }

\* One of the functions is about to be called on one argument.
FunctionsInit ==
  /\ EntryIdle
  /\ SherlockIdle
  /\ RedditIdle
  /\ timeout = 0
  /\ rate_per_min = 60
  /\ now = 0
  /\ LimiterFresh(ItemIds, "none")
  /\ \/ fn = "_parse_stdout" /\ arg \in Texts
     \/ fn = "_is_claimed" /\ arg \in Statuses
     \/ fn = "scan" /\ arg \in Usernames
  /\ ret = None
  /\ answer = <<>>
  /\ SideIdle

\* SherlockScanner._parse_stdout(arg) returns.
CallParseStdout ==
  /\ fn = "_parse_stdout"
  /\ ret = None
  /\ ret' = Some(_parse_stdout(arg))
  /\ UNCHANGED <<fn, arg, answer, sideVars>>
  /\ UNCHANGED <<limiterVars, configVars, entryVars, sherlockVars, redditVars, files>>

\* SherlockScanner._is_claimed(arg) returns.
CallIsClaimed ==
  /\ fn = "_is_claimed"
  /\ ret = None
  /\ ret' = Some(_is_claimed(arg))
  /\ UNCHANGED <<fn, arg, answer, sideVars>>
  /\ UNCHANGED <<limiterVars, configVars, entryVars, sherlockVars, redditVars, files>>

\* The cog's scan command, given the username arg, has built its ScanConfig
\* and SherlockScanner.scan its argument list.
CallBotScan ==
  /\ fn = "scan"
  /\ ret = None
  /\ ret' = Some(BotScan(arg))
  /\ UNCHANGED <<fn, arg, answer, sideVars>>
  /\ UNCHANGED <<limiterVars, configVars, entryVars, sherlockVars, redditVars, files>>

FunctionsNext ==
  \/ CallParseStdout
  \/ CallIsClaimed
  \/ CallBotScan

SpecFunctions == FunctionsInit /\ [][FunctionsNext]_vars

(* ------------ specification of one classification alone --------------- *)

\* Texts handed to _check_toxicity: empty, of whitespace alone, and not.
ClassifyTexts ==
  {<<>>, <<" ">>, <<"\n", "\t", " ">>, <<"b">>, <<" ", "b", " ">>}

\* RedditScanner.scan has fetched one item and awaits its _check_toxicity.
ClassifyInit ==
  /\ EntryIdle
  /\ SherlockIdle
  /\ CallIdle
  /\ SideIdle
  /\ timeout = 0
  /\ rate_per_min \in Rates
  /\ now \in 0..MaxStart
  /\ last_call = 0
  /\ cpc = [k \in ItemIds |-> IF k = 1 THEN "ready" ELSE "none"]
  /\ wake = [k \in ItemIds |-> 0]
  /\ doneAt = [k \in ItemIds |-> -1]
  /\ ownGap = [k \in ItemIds |-> -1]
  /\ lastDone = -1
  /\ allGap = -1
  /\ rpc = "classify"
  /\ session = "closed"
  /\ \E t \in ClassifyTexts : items = Some(<<[kind |-> "comment", text |-> t]>>)
  /\ scores = <<None>>
  /\ rnext = "return"
  /\ rres = None

ClassifyNext ==
  \/ \E i \in ItemIds : ClassifyBegin(i)
  \/ \E i \in ItemIds : ClassifyResume(i)
  \/ \E i \in ItemIds : ClassifyAnswered(i)
  \/ ScanTick

SpecClassify == ClassifyInit /\ [][ClassifyNext]_vars

(* ----------- specification of scans running at the same time ---------- *)

\* RedditScanner.__init__: self.limiter = RateLimiter(config.rate_per_min).
\* The limiter scanner s waits on is an object of its own.
limiter(s) == s

\* Scans of the same rate_per_min are running, one RedditScanner each, with
\* the RateLimiter its __init__ has made (last_call = 0.0); no classification
\* has been asked for yet.
ScannersInit ==
  /\ EntryIdle
  /\ timeout = 0
  /\ SherlockIdle
  /\ RedditIdle
  /\ CallIdle
  /\ rate_per_min \in Rates
  /\ now \in 0..MaxStart
  /\ last_call = 0
  /\ cpc = [s \in Callers |-> "idle"]
  /\ wake = [s \in Callers |-> 0]
  /\ doneAt = [s \in Callers |-> -1]
  /\ ownGap = [s \in Callers |-> -1]
  /\ lastDone = -1
  /\ allGap = -1
  /\ own_last_call = [l \in {limiter(s) : s \in Callers} |-> 0]
  /\ calls = 0 /\ first = None /\ cache = <<>> /\ lastSet = <<>>
  /\ bot = "none" /\ msgs = <<>>
  /\ CooldownIdle

\* _check_toxicity of scanner s calls self.limiter.wait(), which returns at
\* once or suspends in asyncio.sleep.
ScannerWait(s) ==
  LET e == now - own_last_call[limiter(s)]
  IN /\ cpc[s] = "idle"
     /\ IF MustSleep(e)
          THEN /\ cpc' = [cpc EXCEPT ![s] = "sleep"]
               /\ wake' = [wake EXCEPT ![s] = now + SleepTime(e)]
               /\ UNCHANGED <<own_last_call, doneAt, ownGap, lastDone, allGap>>
          ELSE /\ own_last_call' = [own_last_call EXCEPT ![limiter(s)] = now]
               /\ Completed(s)
               /\ UNCHANGED <<cpc, wake>>
     /\ UNCHANGED <<now, rate_per_min, last_call, calls, first, cache, lastSet, bot, msgs, cooldownVars>>
     /\ UNCHANGED <<configVars, callVars, entryVars, sherlockVars, redditVars, files>>

\* The sleep in self.limiter.wait() of scanner s ends, and wait() returns.
ScannerResume(s) ==
  /\ cpc[s] = "sleep"
  /\ now >= wake[s]
  /\ cpc' = [cpc EXCEPT ![s] = "idle"]
  /\ own_last_call' = [own_last_call EXCEPT ![limiter(s)] = now]
  /\ Completed(s)
  /\ UNCHANGED <<now, rate_per_min, last_call, wake, calls, first, cache, lastSet, bot, msgs, cooldownVars>>
  /\ UNCHANGED <<configVars, callVars, entryVars, sherlockVars, redditVars, files>>

ScannersTick ==
  /\ Tick(MaxTime)
  /\ UNCHANGED <<rate_per_min, last_call, cpc, wake, doneAt, ownGap, lastDone, allGap>>
  /\ UNCHANGED <<configVars, callVars, sideVars, entryVars, sherlockVars, redditVars, files>>

ScannersNext ==
  \/ \E s \in Callers : ScannerWait(s)
  \/ \E s \in Callers : ScannerResume(s)
  \/ ScannersTick

SpecScanners == ScannersInit /\ [][ScannersNext]_vars

(* ------------- specification of scan_user called twice ---------------- *)

\* scan_user is called for an identity and a mode for the first time; the
\* content API's credentials are all present or all absent.
RepeatInit ==
  /\ entry = "api"
  /\ mode \in Modes
  /\ api_key \in {None, Some(<<"k">>)}
  /\ client_id = api_key
  /\ client_secret = api_key
  /\ installed \in BOOLEAN
  /\ timeout = 0
  /\ rate_per_min = 60
  /\ now = MaxStart
  /\ LimiterFresh(ItemIds, "none")
  /\ pc = "start"
  /\ tasks = <<>>
  /\ results = [sherlock |-> None, reddit |-> None, errors |-> <<>>]
  /\ cancel_requested = FALSE
  /\ exit_code = -1
  /\ SherlockIdle
  /\ RedditIdle
  /\ files = [reddit |-> "absent", sherlock |-> "absent"]
  /\ CallIdle
  /\ own_last_call = <<>>
  /\ calls = 1
  /\ first = None
  /\ cache = <<>> /\ lastSet = <<>>
  /\ bot = "none" /\ msgs = <<>>
  /\ CooldownIdle

\* scan_user has returned and is called again, in the same second, with the
\* same username and ScanConfig: a new bundle, no task yet, and the sub-scans
\* and the RedditScanner's limiter are new objects.
ScanUserAgain ==
  /\ entry = "api"
  /\ pc = "returned"
  /\ calls = 1
  /\ calls' = 2
  /\ first' = Some(results)
  /\ pc' = "start"
  /\ tasks' = <<>>
  /\ results' = [sherlock |-> None, reddit |-> None, errors |-> <<>>]
  /\ spc' = "idle" /\ proc' = "none" /\ sres' = None /\ started' = -1
  /\ rpc' = "idle" /\ session' = "none" /\ items' = None /\ scores' = <<>>
  /\ rnext' = "none" /\ rres' = None
  /\ last_call' = 0
  /\ cpc' = [k \in DOMAIN cpc |-> "none"]
  /\ wake' = [k \in DOMAIN wake |-> 0]
  /\ doneAt' = [k \in DOMAIN doneAt |-> -1]
  /\ ownGap' = [k \in DOMAIN ownGap |-> -1]
  /\ lastDone' = -1
  /\ allGap' = -1
  /\ UNCHANGED <<now, rate_per_min, cancel_requested, exit_code, files>>
  /\ UNCHANGED <<configVars, callVars, own_last_call, cache, lastSet, bot, msgs, cooldownVars>>

RepeatNext ==
  \/ ScanUserStart
  \/ SherlockExec
  \/ SherlockCommunicate
  \/ SherlockKilled
  \/ RedditOpen
  \/ RedditFetch
  \/ RedditClosed
  \/ \E i \in ItemIds : ClassifyBegin(i)
  \/ \E i \in ItemIds : ClassifyResume(i)
  \/ \E i \in ItemIds : ClassifyResponse(i)
  \/ RedditFilter
  \/ RedditWrite
  \/ ScanUserGathered
  \/ ScanTick
  \/ ScanUserAgain

SpecRepeat == RepeatInit /\ [][RepeatNext]_vars

(* ----------------- specification of the result cache ------------------ *)

\* An entry expires when it is 15 minutes old; the time is in seconds.
CACHE_TTL == 900

\* The most entries the cache may hold.
CACHE_MAX == 100

\* Most steps the clock takes in the cache's specification.
MaxCacheSteps == 3

\* The clock advances by a third of the time an entry lives.
CacheStep == CACHE_TTL \div 3

\* Keys that are set and asked for: the oldest key, and a new one.
ProbeKeys == {1, CACHE_MAX + 1}

\* Bundles that are set; the entries the cache starts with hold "b0".
Bundles == {"b1", "b2"}

\* "not expired (age < 15 minutes)": an entry of this age has expired.
ExpiredLate(age) == age > CACHE_TTL

Expired(age) == age >= CACHE_TTL

\* The keys of the entries with the oldest creation timestamp.
OldestKeys(c) == {k \in DOMAIN c : \A j \in DOMAIN c : c[k].ts <= c[j].ts}

\* The mapping c without key k, and with key k set to entry e.
Without(c, k) == [j \in DOMAIN c \ {k} |-> c[j]]

With(c, k, e) == [j \in DOMAIN c \cup {k} |-> IF j = k THEN e ELSE c[j]]

\* set(): "if at capacity (100 entries), evicts the single oldest entry first"
AtCapacityNever(c) == FALSE

AtCapacity(c) == Cardinality(DOMAIN c) >= CACHE_MAX

\* get(): what becomes of an expired entry
KeepExpired(c, k) == c

RemoveExpired(c, k) == Without(c, k)

\* The cache is full: its entries were set one after the other in the
\* seconds before (two of them in each second).
CacheInit ==
  /\ EntryIdle
  /\ timeout = 0
  /\ SherlockIdle
  /\ RedditIdle
  /\ rate_per_min = 60
  /\ now = CACHE_MAX
  /\ LimiterFresh(ItemIds, "none")
  /\ CallIdle
  /\ own_last_call = <<>> /\ calls = 0 /\ first = None
  /\ cache = [k \in 1..CACHE_MAX |-> [ts |-> (k + 1) \div 2, bundle |-> "b0"]]
  /\ lastSet = [k \in 1..CACHE_MAX |->
                  [ts |-> (k + 1) \div 2, bundle |-> "b0", evicted |-> FALSE]]
  /\ bot = "none" /\ msgs = <<>>
  /\ CooldownIdle

\* get(key): the cached bundle if the key is present and has not expired,
\* else None, and an expired entry is removed.
CacheGet(key) ==
  /\ fn' = "get"
  /\ arg' = [key |-> key, at |-> now]
  /\ IF key \in DOMAIN cache /\ ~Expired(now - cache[key].ts)
       THEN ret' = Some(cache[key].bundle) /\ UNCHANGED cache
       ELSE /\ ret' = None
            /\ cache' = (IF key \in DOMAIN cache THEN RemoveExpired(cache, key) ELSE cache)
  /\ UNCHANGED <<lastSet, answer, own_last_call, calls, first, bot, msgs, cooldownVars>>
  /\ UNCHANGED <<limiterVars, configVars, entryVars, sherlockVars, redditVars, files>>

\* set(key, bundle): at capacity the single oldest entry is evicted first;
\* then the entry is inserted, or overwritten, with the time of the call.
CacheSet(key, bundle) ==
  /\ fn' = "set"
  /\ arg' = [key |-> key, at |-> now]
  /\ ret' = None
  /\ IF AtCapacity(cache)
       THEN \E o \in OldestKeys(cache) :
              /\ cache' = With(Without(cache, o), key, [ts |-> now, bundle |-> bundle])
              /\ lastSet' = With([lastSet EXCEPT ![o].evicted = TRUE], key,
                                 [ts |-> now, bundle |-> bundle, evicted |-> FALSE])
       ELSE /\ cache' = With(cache, key, [ts |-> now, bundle |-> bundle])
            /\ lastSet' = With(lastSet, key, [ts |-> now, bundle |-> bundle, evicted |-> FALSE])
  /\ UNCHANGED <<answer, own_last_call, calls, first, bot, msgs, cooldownVars>>
  /\ UNCHANGED <<limiterVars, configVars, entryVars, sherlockVars, redditVars, files>>

\* Time passes between two calls.
CacheTick ==
  /\ now + CacheStep <= CACHE_MAX + MaxCacheSteps * CacheStep
  /\ now' = now + CacheStep
  /\ UNCHANGED <<rate_per_min, last_call, cpc, wake, doneAt, ownGap, lastDone, allGap>>
  /\ UNCHANGED <<configVars, callVars, sideVars, entryVars, sherlockVars, redditVars, files>>

CacheNext ==
  \/ \E key \in ProbeKeys : CacheGet(key)
  \/ \E key \in ProbeKeys, bundle \in Bundles : CacheSet(key, bundle)
  \/ CacheTick

SpecCache == CacheInit /\ [][CacheNext]_vars

(* --------------- specification of the bot's scan command -------------- *)

\* MAX_SCAN_LENGTH: the longest username the command accepts
MAX_SCAN_LENGTH == 50

\* SCAN_TIMEOUT: seconds asyncio.wait_for gives scan_user
SCAN_TIMEOUT == 300

\* Most steps the clock takes while the command awaits the scan.
MaxBotTicks == 2

\* The clock advances by half the outer timeout.
BotStep == SCAN_TIMEOUT \div 2

\* Usernames given to the command: one of 2 characters, one of 51.
BotUsernames == {<<"a", "b">>, [k \in 1..(MAX_SCAN_LENGTH + 1) |-> "a"]}

\* What the command sends to the requester.
TooLongMessage == "Username too long"

BadModeMessage == "Mode must be: sherlock, reddit, or both"

NoRedditMessage == "Reddit scanning not configured on this bot"

NoSherlockMessage == "Sherlock not available on this bot"

ScanningMessage == "Scanning"

ResultEmbed == "embed: Scan Results"

DetailsMessage == "Sherlock OSINT Results"

TimedOutMessage == "Scan timed out. Try a simpler scan mode."

DiscordErrorMessage == "Discord API error occurred. Please try again."

ScanFailedMessage == "Scan failed. Check bot logs for details."

\* on_command_error, for an exception the command does not catch
CommandErrorMessage == "An error occurred while processing your command."

\* The classes an exception of class `kind` is an instance of.  The
\* TimeoutError asyncio.wait_for raises is the built-in one, an OSError.
Bases(kind) ==
  CASE kind = "TimeoutError" -> {"TimeoutError", "OSError"}
    [] kind = "HTTPException" -> {"HTTPException", "DiscordException"}
    [] OTHER -> {kind}

\* The except clauses of the command's try statement, in their order.
ExceptClausesFailureFirst ==
  << [classes |-> {"OSError", "ValueError", "RuntimeError"}, message |-> ScanFailedMessage],
     [classes |-> {"TimeoutError"}, message |-> TimedOutMessage],
     [classes |-> {"HTTPException", "DiscordException"}, message |-> DiscordErrorMessage] >>

ExceptClauses ==
  << [classes |-> {"TimeoutError"}, message |-> TimedOutMessage],
     [classes |-> {"HTTPException", "DiscordException"}, message |-> DiscordErrorMessage],
     [classes |-> {"OSError", "ValueError", "RuntimeError"}, message |-> ScanFailedMessage] >>

\* The message sent for an exception of class `kind` raised in the try
\* block: that of the first clause that matches it; an exception no clause
\* matches leaves the command and reaches on_command_error.
HandlerMessage(kind) ==
  LET matching == {k \in 1..Len(ExceptClauses) : Bases(kind) \cap ExceptClauses[k].classes # {}}
  IN IF matching = {} THEN CommandErrorMessage
     ELSE ExceptClauses[CHOOSE k \in matching : \A j \in matching : k <= j].message

\* Exceptions that editing the status message or sending the details raises.
ReplyErrors == {"HTTPException", "OSError", "KeyError"}

\* ScanConfig(username=..., limiter=GLOBAL_LIMITER, ...): the configuration
\* accepts the shared limiter's handle.
ScanConfigAccepted == TRUE

\* A moderator has invoked the scan command of a bot that has no credentials
\* for the content API, so that only the enumeration can be scanned; sherlock
\* is installed or not.
BotInit ==
  /\ entry = "api"
  /\ mode \in Modes
  /\ api_key = None
  /\ client_id = None
  /\ client_secret = None
  /\ installed \in BOOLEAN
  /\ timeout = 0
  /\ rate_per_min = 60
  /\ now = 0
  /\ LimiterFresh(ItemIds, "none")
  /\ pc = "none"
  /\ tasks = <<>>
  /\ results = [sherlock |-> None, reddit |-> None, errors |-> <<>>]
  /\ cancel_requested = FALSE
  /\ exit_code = -1
  /\ SherlockIdle
  /\ RedditIdle
  /\ files = [reddit |-> "absent", sherlock |-> "absent"]
  /\ fn = "scan" /\ arg \in BotUsernames /\ ret = None /\ answer = <<>>
  /\ own_last_call = <<>> /\ calls = 0 /\ first = None
  /\ cache = <<>> /\ lastSet = <<>>
  /\ bot = "called"
  /\ msgs = <<>>
  /\ CooldownIdle

\* The command up to its await of asyncio.wait_for: a check that fails sends
\* its message and returns; otherwise the status message is sent, the
\* ScanConfig built and scan_user called.
Command(built) ==
  /\ bot = "called"
  /\ LET refusal ==
           IF Len(arg) > MAX_SCAN_LENGTH THEN TooLongMessage
           ELSE IF mode \notin {"sherlock", "reddit", "both"} THEN BadModeMessage
           ELSE IF WantsReddit /\ ~HasCredentials THEN NoRedditMessage
           ELSE IF WantsSherlock /\ ~SherlockScanner_available THEN NoSherlockMessage
           ELSE ""
     IN IF refusal # ""
          THEN msgs' = <<refusal>> /\ bot' = "returned" /\ UNCHANGED pc
          ELSE /\ msgs' = <<ScanningMessage>>
               /\ IF built
                    THEN bot' = "waiting" /\ pc' = "start"
                    ELSE bot' = "raised" /\ UNCHANGED pc
  /\ UNCHANGED <<tasks, results, cancel_requested, exit_code>>
  /\ UNCHANGED <<own_last_call, calls, first, cache, lastSet, cooldownVars>>
  /\ UNCHANGED <<limiterVars, configVars, callVars, sherlockVars, redditVars, files>>

\* The command, its ScanConfig being one that accepts the limiter.
BotCommand == Command(ScanConfigAccepted)

\* The scan has run for SCAN_TIMEOUT seconds: asyncio.wait_for cancels it.
BotTimeout ==
  /\ bot = "waiting"
  /\ now >= SCAN_TIMEOUT
  /\ Cancel

\* scan_user has returned its bundle: the embed is built and put in place of
\* the status message, then the details are sent; either may raise.
BotReply ==
  /\ bot = "waiting"
  /\ pc = "returned"
  /\ bot' = "returned"
  /\ \/ msgs' = msgs \o <<ResultEmbed>>
             \o (IF Truthy(results.sherlock) \/ Truthy(results.reddit)
                   THEN <<DetailsMessage>> ELSE <<>>)
     \/ \E kind \in ReplyErrors : msgs' = Append(msgs, HandlerMessage(kind))
     \/ \E kind \in ReplyErrors : msgs' = msgs \o <<ResultEmbed, HandlerMessage(kind)>>
  /\ UNCHANGED <<own_last_call, calls, first, cache, lastSet, cooldownVars>>
  /\ UNCHANGED <<limiterVars, configVars, callVars, entryVars, sherlockVars, redditVars, files>>

\* The cancelled scan has ended: asyncio.wait_for raises TimeoutError, and
\* the command's handler for it sends its message.
BotTimedOut ==
  /\ bot = "waiting"
  /\ pc = "cancelled"
  /\ bot' = "returned"
  /\ msgs' = Append(msgs, HandlerMessage("TimeoutError"))
  /\ UNCHANGED <<own_last_call, calls, first, cache, lastSet, cooldownVars>>
  /\ UNCHANGED <<limiterVars, configVars, callVars, entryVars, sherlockVars, redditVars, files>>

\* Time passes while the command awaits the scan.
BotTick ==
  /\ bot = "waiting"
  /\ pc = "gather"
  /\ now < MaxBotTicks * BotStep
  /\ now' = now + BotStep
  /\ UNCHANGED <<rate_per_min, last_call, cpc, wake, doneAt, ownGap, lastDone, allGap>>
  /\ UNCHANGED <<configVars, callVars, sideVars, entryVars, sherlockVars, redditVars, files>>

BotNext ==
  \/ BotCommand
  \/ ScanUserStart
  \/ SherlockExec
  \/ SherlockCommunicate
  \/ SherlockKilled
  \/ ScanUserGathered
  \/ BotTimeout
  \/ EntryCancelled
  \/ BotReply
  \/ BotTimedOut
  \/ BotTick

SpecBot == BotInit /\ [][BotNext]_vars

(* ---------- specification of the classification of the items ---------- *)

\* A body one character longer than what a flagged record keeps.
LongText == [k \in 1..(ContentLimit + 1) |-> IF k > ContentLimit THEN "z" ELSE "a"]

\* Items fetched: a short comment and a long post.
GatherSamples ==
  { [kind |-> "comment", text |-> <<"b">>],
    [kind |-> "post", text |-> LongText] }

\* RedditScanner.scan has fetched its items, the same one several times or
\* different ones, and awaits the gather of their _check_toxicity calls.
GatherInit ==
  /\ EntryIdle
  /\ SherlockIdle
  /\ CallIdle
  /\ SideIdle
  /\ timeout = 0
  /\ rate_per_min = 60
  /\ now = MaxStart
  /\ LimiterFresh(ItemIds, "ready")
  /\ rpc = "classify"
  /\ session = "closed"
  /\ \E l \in [ItemIds -> GatherSamples] : items = Some(l)
  /\ scores = [k \in ItemIds |-> None]
  /\ rnext = "return"
  /\ rres = None

\* How client.post ends for these items: with scores that hold one at the
\* threshold or only ones below it, under a status of 200 or another one, or
\* with an error of the transport.
GatherOutcomes ==
  {o \in Outcomes :
     o.raised = "none" => (o.resp.wellformed /\ DOMAIN o.resp.scores # {})}

\* _check_toxicity: client.post ends for item i; the item, the text sent and
\* the way it ended are kept in `answer`, in the order in which requests end.
GatherAnswered(i) ==
  /\ rpc = "classify"
  /\ ~Starting
  /\ \E o \in GatherOutcomes :
       /\ post(i, o)
       /\ answer' = Append(answer, [item |-> i, sent |-> Payload(items[1][i].text),
                                    raised |-> o.raised, resp |-> o.resp])
  /\ UNCHANGED <<now, rate_per_min, last_call, wake, doneAt, ownGap, lastDone, allGap>>
  /\ UNCHANGED <<rpc, session, items, rnext, rres, configVars, fn, arg, ret, sideVars, entryVars, sherlockVars, files>>

GatherNext ==
  \/ \E i \in ItemIds : ClassifyBegin(i)
  \/ \E i \in ItemIds : ClassifyResume(i)
  \/ \E i \in ItemIds : GatherAnswered(i)
  \/ ScanTick
  \/ RedditFilter
  \/ RedditWrite

SpecGather == GatherInit /\ [][GatherNext]_vars

(* ------------- specification of a scan of many items ------------------ *)

\* Items fetched by the scan of many items.
MaxBurst == 6

BurstIds == 1..MaxBurst

\* RedditScanner.scan has fetched MaxBurst posts and awaits the gather of
\* their _check_toxicity calls.
BurstInit ==
  /\ EntryIdle
  /\ SherlockIdle
  /\ CallIdle
  /\ SideIdle
  /\ timeout = 0
  /\ rate_per_min = 60
  /\ now = MaxStart
  /\ LimiterFresh(BurstIds, "ready")
  /\ rpc = "classify"
  /\ session = "closed"
  /\ items = Some([k \in BurstIds |-> [kind |-> "post", text |-> <<"b", "\n", "c">>]])
  /\ scores = [k \in BurstIds |-> None]
  /\ rnext = "return"
  /\ rres = None

BurstNext ==
  \/ \E i \in BurstIds : ClassifyBegin(i)
  \/ \E i \in BurstIds : ClassifyResume(i)
  \/ \E i \in BurstIds : ClassifyResponse(i)
  \/ ScanTick

SpecBurst == BurstInit /\ [][BurstNext]_vars

(* -------------- specification of the slash-command cooldown ----------- *)

COOLDOWN_SECONDS == 30

\* Times the clock is advanced between the commands.
MaxCooldownTicks == 4

\* Most entries the cooldown queue holds in this specification.
MaxQueue == 3

\* The clock advances by a third of the cooldown, so that an entry is seen
\* before, at and after its thirtieth second.
CooldownStep == COOLDOWN_SECONDS \div 3

\* The users giving commands.
CooldownUsers == {"u1", "u2"}

\* check_cooldown: now - _cooldown_queue[0][0] >= COOLDOWN_SECONDS
CooldownExpiredStrict(ts) == now - ts > COOLDOWN_SECONDS

CooldownExpired(ts) == now - ts >= COOLDOWN_SECONDS

\* check_cooldown: uid in _scan_cooldowns and _scan_cooldowns[uid] == ts
IsMostRecentAlways(m, uid, ts) == uid \in DOMAIN m

IsMostRecent(m, uid, ts) == uid \in DOMAIN m /\ m[uid] = ts

\* del _scan_cooldowns[uid]
Deleted(m, uid) == [k \in DOMAIN m \ {uid} |-> m[k]]

\* check_cooldown, the lazy cleanup: expired entries are popped from the
\* front of the queue, and the map's entry goes with a popped one that is
\* the user's most recent.
RECURSIVE Cleanup(_, _)
Cleanup(m, q) ==
  IF q # <<>> /\ CooldownExpired(q[1][1])
    THEN Cleanup(IF IsMostRecent(m, q[1][2], q[1][1]) THEN Deleted(m, q[1][2]) ELSE m,
                 Tail(q))
    ELSE [map |-> m, queue |-> q]

\* check_cooldown after its cleanup: (is_on_cooldown, seconds_remaining)
check_cooldown(m, user_id) ==
  IF user_id \in DOMAIN m /\ now - m[user_id] < COOLDOWN_SECONDS
    THEN <<TRUE, COOLDOWN_SECONDS - (now - m[user_id])>>
    ELSE <<FALSE, 0>>

\* update_cooldown: _scan_cooldowns[user_id] = now
Stamped(m, user_id) ==
  [k \in DOMAIN m \cup {user_id} |-> IF k = user_id THEN now ELSE m[k]]

\* The bot has started: nobody is on cooldown.
CooldownInit ==
  /\ EntryIdle
  /\ timeout = 0
  /\ SherlockIdle
  /\ RedditIdle
  /\ rate_per_min = 60
  /\ now = 0
  /\ LimiterFresh(ItemIds, "none")
  /\ CallIdle
  /\ own_last_call = <<>> /\ calls = 0 /\ first = None
  /\ cache = <<>> /\ lastSet = <<>>
  /\ bot = "none" /\ msgs = <<>>
  /\ _scan_cooldowns = <<>>
  /\ _cooldown_queue = <<>>
  /\ updated = [u \in CooldownUsers |-> -1]
  /\ accepted = [u \in CooldownUsers |-> <<>>]

\* The slash command of user u up to its first await: check_cooldown; a
\* user on cooldown, or a request that fails one of the checks that follow
\* (`valid` is false), is answered and nothing more is done; otherwise
\* update_cooldown is called and the scan goes on.  No await lies between
\* the two calls.
ScanSlash(u, valid) ==
  LET c == Cleanup(_scan_cooldowns, _cooldown_queue)
      r == check_cooldown(c.map, u)
      go == ~r[1] /\ valid
  IN /\ go => Len(c.queue) < MaxQueue
     /\ fn' = (IF go THEN "scan_slash" ELSE "check_cooldown")
     /\ arg' = [user |-> u, at |-> now, updated |-> updated[u]]
     /\ ret' = Some(r)
     /\ IF go
          THEN /\ _scan_cooldowns' = Stamped(c.map, u)
               /\ _cooldown_queue' = Append(c.queue, <<now, u>>)
               /\ updated' = [updated EXCEPT ![u] = now]
               /\ accepted' = [accepted EXCEPT ![u] = Append(@, now)]
          ELSE /\ _scan_cooldowns' = c.map
               /\ _cooldown_queue' = c.queue
               /\ UNCHANGED <<updated, accepted>>
     /\ UNCHANGED <<answer, own_last_call, calls, first, cache, lastSet, bot, msgs>>
     /\ UNCHANGED <<limiterVars, configVars, entryVars, sherlockVars, redditVars, files>>

\* update_cooldown(u), called on its own.
CallUpdateCooldown(u) ==
  /\ Len(_cooldown_queue) < MaxQueue
  /\ fn' = "update_cooldown"
  /\ arg' = [user |-> u, at |-> now, updated |-> updated[u]]
  /\ ret' = None
  /\ _scan_cooldowns' = Stamped(_scan_cooldowns, u)
  /\ _cooldown_queue' = Append(_cooldown_queue, <<now, u>>)
  /\ updated' = [updated EXCEPT ![u] = now]
  /\ UNCHANGED <<accepted, answer, own_last_call, calls, first, cache, lastSet, bot, msgs>>
  /\ UNCHANGED <<limiterVars, configVars, entryVars, sherlockVars, redditVars, files>>

\* Time passes between two commands: asyncio.get_event_loop().time()
CooldownTick ==
  /\ now + CooldownStep <= MaxCooldownTicks * CooldownStep
  /\ now' = now + CooldownStep
  /\ UNCHANGED <<rate_per_min, last_call, cpc, wake, doneAt, ownGap, lastDone, allGap>>
  /\ UNCHANGED <<configVars, callVars, sideVars, entryVars, sherlockVars, redditVars, files>>

CooldownNext ==
  \/ \E u \in CooldownUsers, valid \in BOOLEAN : ScanSlash(u, valid)
  \/ \E u \in CooldownUsers : CallUpdateCooldown(u)
  \/ CooldownTick

SpecCooldown == CooldownInit /\ [][CooldownNext]_vars

(* ------- specification of the scan command with ScanConfig as built ---- *)

\* The fields of the ScanConfig dataclass, which its __init__ accepts as
\* keywords.
ScanConfigFields ==
  {"username", "mode", "api_key", "client_id", "client_secret", "user_agent",
   "comments", "posts", "threshold", "rate_per_min", "sherlock_timeout",
   "output_reddit", "output_sherlock", "verbose"}

\* The keywords the command hands to ScanConfig.
ScanKeywords ==
  {"username", "mode", "api_key", "client_id", "client_secret", "user_agent",
   "limiter", "output_reddit", "output_sherlock", "verbose"}

\* ScanConfig(**keywords) raises TypeError for a keyword that is no field.
ScanConfigRaises == ScanKeywords \ ScanConfigFields # {}

\* A moderator has invoked the scan command; the bot has the credentials of
\* the content API or has none, and sherlock is installed or not.
BuiltInit ==
  /\ entry = "api"
  /\ mode \in Modes
  /\ \E c \in {None, Some(<<"k">>)} : api_key = c /\ client_id = c /\ client_secret = c
  /\ installed \in BOOLEAN
  /\ timeout = 0
  /\ rate_per_min = 60
  /\ now = 0
  /\ LimiterFresh(ItemIds, "none")
  /\ pc = "none"
  /\ tasks = <<>>
  /\ results = [sherlock |-> None, reddit |-> None, errors |-> <<>>]
  /\ cancel_requested = FALSE
  /\ exit_code = -1
  /\ SherlockIdle
  /\ RedditIdle
  /\ files = [reddit |-> "absent", sherlock |-> "absent"]
  /\ fn = "scan" /\ arg \in Usernames \cup BotUsernames /\ ret = None /\ answer = <<>>
  /\ own_last_call = <<>> /\ calls = 0 /\ first = None
  /\ cache = <<>> /\ lastSet = <<>>
  /\ bot = "called"
  /\ msgs = <<>>
  /\ CooldownIdle

\* The command, its ScanConfig being the dataclass of account_scanner.py.
BotCommandBuilt == Command(~ScanConfigRaises)

\* The TypeError leaves the command, the call of ScanConfig standing outside
\* its try statement: the bot's on_command_error sends its message, or, in a
\* bot that has no such handler, nothing is sent.
BotRaised ==
  /\ bot = "raised"
  /\ bot' = "returned"
  /\ \/ msgs' = Append(msgs, CommandErrorMessage)
     \/ UNCHANGED msgs
  /\ UNCHANGED <<own_last_call, calls, first, cache, lastSet, cooldownVars>>
  /\ UNCHANGED <<limiterVars, configVars, callVars, entryVars, sherlockVars, redditVars, files>>

\* Nothing of the scan is among the steps: no request gets past ScanConfig.
BuiltNext ==
  \/ BotCommandBuilt
  \/ BotRaised

SpecBuilt == BuiltInit /\ [][BuiltNext]_vars

(* ------------------------------ claims -------------------------------- *)

\* The bundle's errors list holds the string e.
HasError(e) == \E k \in 1..Len(results.errors) : results.errors[k] = e

\* The configuration asks for the enumeration / for the content sub-scan.
AsksEnumeration == mode = "sherlock" \/ mode = "both"

AsksContent == mode = "reddit" \/ mode = "both"

\* All three content-API credentials are present (not None, not empty).
CredentialsPresent ==
  \A c \in {api_key, client_id, client_secret} : c # None /\ c # Some(<<>>)

\* A sub-scan has been started.
EnumerationStarted == spc # "idle"

ContentStarted == rpc # "idle"

NoFileTouched == files.reddit = "absent" /\ files.sherlock = "absent"

\* C1: for one RateLimiter shared by concurrently awaiting callers, no two
\* completions of wait(), by the same or by different callers, are closer
\* together than 60 / rate_per_minute seconds.
C1_CompletionsSpaced == allGap # -1 => allGap >= 60 \div rate_per_min

\* C2: two consecutive wait() calls of one caller: the second completes at
\* least 60 / rate_per_minute seconds after the first.
C2_ConsecutiveSpaced ==
  \A i \in Callers : ownGap[i] # -1 => ownGap[i] >= 60 \div rate_per_min

\* A caller has completed wait() twice, the second time right after the sleep
\* that the first completion imposed on it.
C2_Witness ==
  \E i \in Callers : ownGap[i] = 60 \div rate_per_min /\ last_call = doneAt[i]

\* C3: in scan_user the enumeration sub-scan is started exactly when the mode
\* is 'sherlock' or 'both' and the utility is available; when the mode asks
\* for it and the utility is unavailable, it is not started and the bundle's
\* errors hold "Sherlock not installed".
C3_EnumerationStartedIffAvailable ==
  (entry = "api" /\ pc # "start") =>
    /\ EnumerationStarted <=> (AsksEnumeration /\ installed)
    /\ (AsksEnumeration /\ ~installed) =>
         (~EnumerationStarted /\ proc = "none" /\ HasError("Sherlock not installed"))

\* Mode 'both' with the utility missing: the scan went on with the content
\* sub-scan alone and recorded the error.
C3_Witness ==
  /\ entry = "api" /\ pc = "returned" /\ mode = "both" /\ ~installed
  /\ ~EnumerationStarted /\ ContentStarted
  /\ HasError("Sherlock not installed")

\* C4: in scan_user with mode 'both' and a content-API credential missing, the
\* content sub-scan is not started, the enumeration sub-scan still runs if it
\* is available, and the bundle's errors hold a string about the skipped
\* content sub-scan (any string but the enumeration's own is taken for one).
C4_MissingCredentialsReported ==
  (entry = "api" /\ pc # "start" /\ mode = "both" /\ ~CredentialsPresent) =>
    /\ ~ContentStarted
    /\ installed => EnumerationStarted
    /\ \E k \in 1..Len(results.errors) :
         results.errors[k] \notin {"Sherlock not installed", "sherlock failed"}

\* C5: mode 'reddit' with a content-API credential missing: no sub-scan is
\* started, no report file is created or changed, and the caller is told: an
\* error in scan_user's bundle, a nonzero exit status from the command line.
C5_ContentOnlyWithoutCredentials ==
  (pc # "start" /\ mode = "reddit" /\ ~CredentialsPresent) =>
    /\ tasks = <<>> /\ ~EnumerationStarted /\ ~ContentStarted
    /\ proc = "none" /\ session = "none"
    /\ NoFileTouched
    /\ entry = "api" =>
         (pc = "returned" /\ HasError("Reddit mode requires API credentials"))
    /\ entry = "cli" => (pc = "exited" /\ exit_code > 0)

\* scan_user has returned such a bundle, with one credential of three missing.
C5_Witness ==
  /\ entry = "api" /\ pc = "returned" /\ mode = "reddit"
  /\ api_key # None /\ client_id # None /\ client_secret = None
  /\ HasError("Reddit mode requires API credentials")
  /\ NoFileTouched

\* C6: whatever the mode, the availability and the credentials, if no
\* sub-scan is eligible then scan_user starts none and returns a bundle whose
\* errors hold "No valid scan modes configured" and whose sherlock and reddit
\* fields are None.
C6_NoEligibleSubScan ==
  (entry = "api" /\ pc # "start"
     /\ ~(AsksEnumeration /\ installed) /\ ~(AsksContent /\ CredentialsPresent)) =>
    /\ pc = "returned"
    /\ ~EnumerationStarted /\ ~ContentStarted
    /\ HasError("No valid scan modes configured")
    /\ results.sherlock = None /\ results.reddit = None

\* Mode 'both' with neither the utility nor the credentials.
C6_Witness ==
  /\ entry = "api" /\ pc = "returned" /\ mode = "both"
  /\ ~installed /\ ~CredentialsPresent
  /\ HasError("No valid scan modes configured")

\* C7: both sub-scans were started and one of them failed with an exception:
\* the other is not cancelled and runs to its own end; scan_user returns a
\* bundle in which the failed sub-scan's field is None, the errors name the
\* failed sub-scan, and the other's result is present.
C7_FailureLeavesSibling ==
  (entry = "api" /\ Len(tasks) = 2 /\ ~cancel_requested) =>
    /\ rpc = "failed" =>
         /\ spc # "cancelled"
         /\ pc = "returned" =>
              /\ spc = "done"
              /\ results.reddit = None /\ HasError("reddit failed")
              /\ results.sherlock # None /\ results.sherlock = sres
    /\ spc = "failed" =>
         /\ rpc # "cancelled"
         /\ pc = "returned" =>
              /\ rpc = "done"
              /\ results.sherlock = None /\ HasError("sherlock failed")
              /\ results.reddit = rres

\* The content sub-scan failed writing its report, the enumeration sub-scan
\* went on to find an account, and the bundle was returned.
C7_Witness ==
  /\ entry = "api" /\ pc = "returned" /\ Len(tasks) = 2
  /\ rpc = "failed" /\ spc = "done"
  /\ results.reddit = None /\ HasError("reddit failed")
  /\ results.sherlock # None /\ results.sherlock # Some(<<>>)

\* C8 as stated: in every bundle scan_user returns, sherlock is a list iff the
\* enumeration sub-scan ran, and reddit is a list iff the content sub-scan ran
\* and fetched at least one item.
C8_FieldsPresentIffRan ==
  (entry = "api" /\ pc = "returned") =>
    /\ results.sherlock # None <=> EnumerationStarted
    /\ results.reddit # None <=>
         (ContentStarted /\ items # None /\ Len(items[1]) > 0)

\* C8 amended: in every bundle scan_user returns, sherlock is a list iff the
\* enumeration sub-scan ran, and reddit is a list iff the content sub-scan
\* ran, fetched at least one item and returned without raising; otherwise the
\* field is None.
C8_FieldsPresentIffRanAndReturned ==
  (entry = "api" /\ pc = "returned") =>
    /\ results.sherlock # None <=> EnumerationStarted
    /\ results.reddit # None <=>
         (ContentStarted /\ items # None /\ Len(items[1]) > 0 /\ rpc # "failed")

\* Both ran: the enumeration found nothing (an empty list), the content
\* sub-scan fetched nothing (None).
C8_Witness ==
  /\ entry = "api" /\ pc = "returned" /\ Len(tasks) = 2
  /\ results.sherlock = Some(<<>>)
  /\ rpc = "done" /\ items = None /\ results.reddit = None

\* C9: mode 'both', the enumeration utility unavailable, all content
\* credentials present, exactly one fetched item, scoring at or above the
\* threshold, and a report that could be written: scan_user returns a bundle
\* with sherlock None, the error "Sherlock not installed" and a reddit list
\* of exactly that one flagged item; the content report is written and the
\* enumeration report is not.
C9_EndToEnd ==
  (/\ entry = "api" /\ pc = "returned"
   /\ mode = "both" /\ ~installed /\ CredentialsPresent
   /\ items # None /\ Len(items[1]) = 1
   /\ scores[1] # None /\ (\E a \in DOMAIN scores[1][1] : scores[1][1][a] >= 70)
   /\ rpc = "done") =>
    /\ results.sherlock = None
    /\ HasError("Sherlock not installed")
    /\ results.reddit # None /\ Len(results.reddit[1]) = 1
    /\ results.reddit[1][1].type = items[1][1].kind
    /\ results.reddit[1][1].content = items[1][1].text
    /\ results.reddit[1][1].scores = scores[1][1]
    /\ files.reddit = "complete"
    /\ files.sherlock = "absent"

\* Such a scan has returned, the item scoring exactly the threshold.
C9_Witness ==
  /\ entry = "api" /\ pc = "returned" /\ mode = "both" /\ ~installed
  /\ items # None /\ Len(items[1]) = 1
  /\ scores[1] # None /\ "TOXICITY" \in DOMAIN scores[1][1]
  /\ scores[1][1]["TOXICITY"] = 70
  /\ results.reddit # None /\ Len(results.reddit[1]) = 1
  /\ files.reddit = "complete"

\* C10: a cancellation that arrives while SherlockScanner.scan awaits its
\* subprocess, or while _check_toxicity awaits the rate limiter or the HTTP
\* call, leaves that operation as a cancellation: it is not turned into an
\* empty list or an empty mapping.
C10_CancellationPropagates ==
  [][(~cancel_requested /\ cancel_requested') =>
       /\ spc \in {"communicate", "killwait"} => (spc' = "cancelled" /\ sres' = None)
       /\ \A i \in ItemIds :
            (rpc = "classify" /\ cpc[i] \in {"sleep", "post"}) =>
              (cpc'[i] = "cancelled" /\ scores'[i] = None)]_vars

\* A scan was cancelled while the subprocess ran, one classification was in
\* its HTTP call and another slept in the rate limiter.
C10_Witness ==
  /\ cancel_requested /\ spc = "cancelled" /\ proc = "running"
  /\ rpc = "cancelled"
  /\ \E i, j \in ItemIds :
       /\ cpc[i] = "cancelled" /\ doneAt[i] # -1 /\ scores[i] = None
       /\ cpc[j] = "cancelled" /\ doneAt[j] = -1 /\ wake[j] > 0 /\ scores[j] = None

\* C11: the subprocess is killed only when it has not exited within
\* timeout + 30 seconds of the start of the wait; scan() then waits for it to
\* exit and returns an empty list: it neither raises nor returns anything else.
C11_TimeoutKillsAndReturnsEmpty ==
  /\ proc = "killed" =>
       /\ now >= started + timeout + 30
       /\ spc \in {"killwait", "done"}
       /\ spc = "done" => sres = Some(<<>>)
  /\ spc = "killwait" => proc = "killed"

\* A scan with a timeout of one second was killed 31 seconds after its wait
\* began, and has returned the empty list.
C11_Witness ==
  /\ timeout = 1 /\ proc = "killed" /\ spc = "done" /\ sres = Some(<<>>)
  /\ now = started + 31

\* C12: a failure of the enumeration other than a cancellation (the launch
\* of the subprocess fails, an operating-system or parse error is raised while
\* its output is awaited and read) makes SherlockScanner.scan return an empty
\* list; no exception of it ever reaches the orchestrator.
C12_FailuresReturnEmpty ==
  /\ spc # "failed"
  /\ (spc = "done" /\ proc \in {"none", "running"}) => sres = Some(<<>>)
  /\ ~HasError("sherlock failed")
  /\ (entry = "api" /\ pc = "returned" /\ spc = "done" /\ proc \in {"none", "running"}) =>
       results.sherlock = Some(<<>>)

\* An error was raised while the started subprocess was awaited, and scan_user
\* has returned a bundle whose sherlock field is the empty list.
C12_Witness ==
  /\ entry = "api" /\ pc = "returned"
  /\ spc = "done" /\ proc = "running"
  /\ results.sherlock = Some(<<>>)
  /\ results.errors = <<>>

\* C13: for the lines "[+] GitHub: https://github.com/test",
\* "[+] Twitter: https://twitter.com/test" and "[-] Facebook: Not Found",
\* _parse_stdout returns exactly two records, GitHub then Twitter, each with
\* its URL and the platform name stripped of its decoration.
C13_ParsesTestLines ==
  (/\ fn = "_parse_stdout" /\ ret # None
   /\ arg = JoinLines(<<LineTestGitHub, LineTestTwitter, LineTestFacebook>>)) =>
    /\ Len(ret[1]) = 2
    /\ ret[1][1].platform = <<"G", "i", "t", "H", "u", "b">>
    /\ ret[1][1].url = SubSeq(LineTestGitHub, 13, Len(LineTestGitHub))
    /\ ret[1][2].platform = <<"T", "w", "i", "t", "t", "e", "r">>
    /\ ret[1][2].url = SubSeq(LineTestTwitter, 14, Len(LineTestTwitter))

\* Two characters are the same letter, in whatever case, or the same character.
SameLetter(c, d) == d \in BothCases(c)

\* The text s holds the word w, in whatever letter case.
HoldsWord(s, w) ==
  \E k \in 1..(Len(s) - Len(w) + 1) : \A j \in 1..Len(w) : SameLetter(s[k + j - 1], w[j])

\* The text s is the text t, in whatever letter case.
SameText(s, t) == Len(s) = Len(t) /\ \A k \in 1..Len(s) : SameLetter(s[k], t[k])

\* C14: _is_claimed(status) is false exactly when the status holds, in any
\* letter case, one of "not", "available", "invalid", "unchecked", "unknown";
\* "Claimed", "Found" and "Found!" are claimed, and "Not Found", "Available",
\* "Invalid", "Invalid Username", "Unchecked", "Unknown" are not, in any
\* letter case.
C14_ClaimedUnlessInvalidWord ==
  (fn = "_is_claimed" /\ ret # None) =>
    /\ ret[1] = FALSE <=>
         \E w \in {<<"n", "o", "t">>, <<"a", "v", "a", "i", "l", "a", "b", "l", "e">>,
                   <<"i", "n", "v", "a", "l", "i", "d">>, <<"u", "n", "c", "h", "e", "c", "k", "e", "d">>,
                   <<"u", "n", "k", "n", "o", "w", "n">>} : HoldsWord(arg, w)
    /\ (\E t \in {StatusClaimed, StatusFound, StatusFoundBang} : SameText(arg, t)) =>
         ret[1] = TRUE
    /\ (\E t \in {StatusNotFound, StatusAvailable, StatusInvalid, StatusInvalidUsername,
                   StatusUnchecked, StatusUnknown} : SameText(arg, t)) =>
         ret[1] = FALSE

\* "nOT fOUND" has been found not claimed.
C14_Witness ==
  /\ fn = "_is_claimed" /\ ret = Some(FALSE)
  /\ arg = <<"n", "O", "T", " ", "f", "O", "U", "N", "D">>

\* Two records are of the same (lower-cased platform name, URL) pair.
SamePair(r, q) == r.url = q.url /\ SameText(r.platform, q.platform)

\* C15: the list _parse_stdout returns holds no two records of the same
\* (lower-cased platform name, URL) pair; of the lines that give a record,
\* those whose pair no earlier line gave are retained, each as it stands,
\* and in the order of the input.
C15_FirstOfEachPairKept ==
  (fn = "_parse_stdout" /\ ret # None) =>
    LET out == ret[1]
        lines == SplitLines(arg)
        Kept == {k \in 1..Len(lines) :
                   /\ ParseLine(lines[k]) # <<>>
                   /\ \A j \in 1..(k - 1) :
                        \/ ParseLine(lines[j]) = <<>>
                        \/ ~SamePair(ParseLine(lines[j])[1], ParseLine(lines[k])[1])}
    IN /\ \A i, j \in 1..Len(out) : i # j => ~SamePair(out[i], out[j])
       /\ Len(out) = Cardinality(Kept)
       /\ \A k \in Kept :
            LET n == Cardinality({j \in Kept : j <= k})
            IN /\ out[n].platform = ParseLine(lines[k])[1].platform
               /\ out[n].url = ParseLine(lines[k])[1].url

\* GitHub, Twitter, then GitHub again in lower case: two records, GitHub as
\* first written and Twitter.
C15_Witness ==
  /\ fn = "_parse_stdout" /\ ret # None
  /\ arg = JoinLines(<<LineGitHubWide, LineTwitterWide, LineGithubBare>>)
  /\ Len(ret[1]) = 2
  /\ ret[1][1].platform = <<"G", "i", "t", "H", "u", "b">>
  /\ ret[1][2].platform = <<"T", "w", "i", "t", "t", "e", "r">>

\* One of the scores of fetched item k is at or above the threshold of 0.7.
AtThreshold(k) ==
  scores[k] # None /\ \E a \in DOMAIN scores[k][1] : scores[k][1][a] >= 70

\* C16: a fetched item is in the flagged list iff one of its scores is at or
\* above the threshold: the list holds those items, each once and in order;
\* an item scoring below on every attribute, or with an empty mapping, is not
\* in it; and the report is written only if some item is.
C16_FlaggedIffAtThreshold ==
  /\ rpc = "write" => \E k \in 1..Len(items[1]) : AtThreshold(k)
  /\ (rpc = "done" /\ rres # None) =>
       LET Hot == {k \in 1..Len(items[1]) : AtThreshold(k)}
       IN /\ Len(rres[1]) = Cardinality(Hot)
          /\ \A n \in 1..Len(rres[1]) : rres[1][n].scores # NoScores
          /\ \A k \in Hot :
               LET n == Cardinality({j \in Hot : j <= k})
               IN /\ rres[1][n].type = items[1][k].kind
                  /\ rres[1][n].content = items[1][k].text
                  /\ rres[1][n].scores = scores[k][1]

\* Of two fetched items the first scored 0.69 and the second 0.70: the
\* returned list holds the second alone.
C16_Witness ==
  /\ rpc = "done" /\ rres # None /\ Len(items[1]) = 2
  /\ scores[1] # None /\ "PROFANITY" \in DOMAIN scores[1][1]
  /\ scores[2] # None /\ "INSULT" \in DOMAIN scores[2][1]
  /\ Len(rres[1]) = 1 /\ rres[1][1].scores = scores[2][1]

\* The text is empty or holds whitespace only.
AllWhitespace(text) == \A k \in 1..Len(text) : text[k] \in {" ", "\n", "\t"}

\* C17: _check_toxicity on an empty or whitespace-only text returns the empty
\* mapping and leaves the rate limiter as it was: wait() is not entered,
\* last_call keeps its value, and no request is issued.
C17_BlankTextSkipsLimiter ==
  \A i \in ItemIds :
    (rpc = "classify" /\ cpc[i] # "none" /\ AllWhitespace(items[1][i].text)) =>
      /\ cpc[i] \in {"ready", "done"}
      /\ cpc[i] = "done" => scores[i] = Some(NoScores)
      /\ last_call = 0 /\ wake[i] = 0
      /\ doneAt[i] = -1 /\ lastDone = -1
      /\ answer = <<>>

\* The call on a text of a newline, a tab and a blank has returned.
C17_Witness ==
  /\ rpc = "classify" /\ cpc[1] = "done"
  /\ Len(items[1][1].text) = 3 /\ AllWhitespace(items[1][1].text)
  /\ scores[1] = Some(NoScores) /\ last_call = 0

\* C18: on a text that is not blank, _check_toxicity first completes wait()
\* on the rate limiter and then issues one request; it never raises; it
\* returns the answer's scores for a status of 200 with a well-formed body,
\* and the empty mapping for a transport error, another status or a
\* malformed body.
C18_OneRequestEmptyOnFailure ==
  \A i \in ItemIds :
    (rpc = "classify" /\ cpc[i] # "none" /\ ~AllWhitespace(items[1][i].text)) =>
      /\ cpc[i] # "failed"
      /\ cpc[i] \in {"ready", "sleep"} => (doneAt[i] = -1 /\ answer = <<>>)
      /\ cpc[i] = "post" =>
           (doneAt[i] >= 60 \div rate_per_min /\ last_call = doneAt[i] /\ answer = <<>>)
      /\ cpc[i] = "done" =>
           /\ doneAt[i] # -1 /\ Len(answer) = 1 /\ scores[i] # None
           /\ scores[i][1] =
                (IF /\ answer[1].raised = "none"
                    /\ answer[1].resp.status = 200
                    /\ answer[1].resp.wellformed
                   THEN answer[1].resp.scores ELSE NoScores)

\* The call slept in wait(), issued its request, got a status of 500 with a
\* body of scores, and returned the empty mapping.
C18_Witness ==
  /\ rpc = "classify" /\ cpc[1] = "done" /\ wake[1] > 0
  /\ Len(answer) = 1 /\ answer[1].raised = "none"
  /\ answer[1].resp.status = 500 /\ answer[1].resp.scores # NoScores
  /\ scores[1] = Some(NoScores)

\* C19: _fetch_items returns None when the combined list is empty and when
\* an error of the content API, or any other, is raised while it fetches; it
\* returns the list when there is at least one item; no such error ever
\* leaves it, so RedditScanner.scan never fails because of one.
C19_FetcherNoneOrItems ==
  /\ items # Some(<<>>)
  /\ rnext = "caught" => items = None
  /\ rnext # "raise"
  /\ rpc = "failed" => (rnext = "return" /\ items # None)
  /\ (rpc = "done" /\ rnext = "caught") => rres = None

\* The fetch raised an error; scan_user has returned a bundle whose reddit
\* field is None and whose errors do not name the content sub-scan.
C19_Witness ==
  /\ entry = "api" /\ pc = "returned"
  /\ rpc = "done" /\ rnext = "caught" /\ session = "closed"
  /\ items = None /\ results.reddit = None
  /\ ~HasError("reddit failed")

\* C20: once _fetch_items has returned, with items, with none or after an
\* error, the session it created has been closed; the same holds when it is
\* left by a cancellation that reached it while it fetched.  The session is
\* absent only when its construction failed.
C20_SessionClosedOnExit ==
  /\ rpc \in {"classify", "write", "done", "failed"} =>
       /\ session # "open"
       /\ session = "none" => (rnext = "caught" /\ items = None)
  /\ (rpc = "cancelled" /\ (rnext = "cancel" \/ scores # <<>>)) => session = "closed"

\* An error was raised while the open session fetched; the fetcher has
\* returned, the session is closed, and scan_user still awaits its gather.
C20_Witness ==
  /\ pc = "gather"
  /\ rpc = "done" /\ rnext = "caught" /\ session = "closed"

\* The entry point has ended: scan_user returned, main_async ended the
\* process, or a cancellation left either.
ScanEnded == pc \in {"returned", "exited", "cancelled"}

\* The list a sub-scan returned holds at least one record.
FoundSome(l) == l # None /\ l # Some(<<>>)

\* C21: after any scan the flagged-content report is written if and only if
\* the flagged list is non-empty, and the enumerated-accounts report is
\* written if and only if the claimed-account list is non-empty; a sub-scan
\* that did not run or found nothing leaves its report path untouched.
C21_ReportsWrittenIffFound ==
  ScanEnded =>
    /\ files.reddit = "complete" <=> FoundSome(rres)
    /\ files.sherlock = "complete" <=> FoundSome(sres)
    /\ ~FoundSome(rres) /\ rpc \in {"idle", "done"} => files.reddit = "absent"
    /\ ~FoundSome(sres) /\ spc \in {"idle", "done"} => files.sherlock = "absent"

\* Every character of s is a letter, a digit, "_" or "-".
Sanitized(s) == \A k \in 1..Len(s) : s[k] \in WordChars

\* The path is dir/<name><suffix> for a sanitized name.
SanitizedPath(path, dir, suffix) ==
  LET name == SubSeq(path, Len(dir) + 2, Len(path) - Len(suffix))
  IN Sanitized(name) /\ path = dir \o <<"/">> \o name \o suffix

\* C22: the identity is sanitized to letters, digits, "_" and "-" before it
\* reaches a report path, the enumeration tool's output path or the
\* subprocess argument list: the second argument of the command, and the file
\* names of the three paths, hold no other character.
C22_IdentitySanitized ==
  (fn = "scan" /\ ret # None) =>
    /\ Sanitized(ret[1].cmd[2])
    /\ SanitizedPath(ret[1].cmd[8], SCANS_DIR, <<".", "t", "x", "t">>)
    /\ SanitizedPath(ret[1].output_reddit, SCANS_DIR, <<"_", "r", "e", "d", "d", "i", "t", ".", "c", "s", "v">>)
    /\ SanitizedPath(ret[1].output_sherlock, SCANS_DIR, <<"_", "s", "h", "e", "r", "l", "o", "c", "k", ".", "j", "s", "o", "n">>)

\* C23: the scans running at the same time wait on one shared RateLimiter, so
\* that the classification requests of two different scans are at least
\* 60 / rate_per_minute seconds apart from each other.
C23_ScansSpacedFromEachOther ==
  \A s, t \in Callers :
    (s # t /\ doneAt[s] # -1 /\ doneAt[t] # -1) =>
      \/ doneAt[s] - doneAt[t] >= delay
      \/ doneAt[t] - doneAt[s] >= delay

\* C24: a second scan_user for the same identity and mode, less than 15
\* minutes after the first has completed, returns the bundle the first one
\* returned (cached when that scan was done) and starts no sub-scan.
C24_SecondCallServedFromCache ==
  calls = 2 =>
    /\ ~EnumerationStarted
    /\ ~ContentStarted
    /\ pc = "returned" => results = first[1]

\* C25: get(key) returns the bundle most recently set for that key if that
\* bundle is less than 15 minutes old, and otherwise returns None and leaves
\* no entry for the key; a get right after a set of the same key returns the
\* bundle that was set.
C25_GetReturnsLatestUnlessExpired ==
  fn = "get" =>
    IF /\ arg.key \in DOMAIN lastSet
       /\ arg.at - lastSet[arg.key].ts < CACHE_TTL
      THEN ret = Some(lastSet[arg.key].bundle)
      ELSE ret = None /\ arg.key \notin DOMAIN cache

\* C25, amended: get(key) returns the bundle most recently set for that key
\* if its entry has not been evicted to make room for another and is less
\* than 15 minutes old, and otherwise returns None and leaves no entry for
\* the key; a get right after a set of the same key returns the bundle set.
C25_GetReturnsLatestUnlessExpiredOrEvicted ==
  fn = "get" =>
    IF /\ arg.key \in DOMAIN lastSet
       /\ ~lastSet[arg.key].evicted
       /\ arg.at - lastSet[arg.key].ts < CACHE_TTL
      THEN ret = Some(lastSet[arg.key].bundle) /\ arg.key \in DOMAIN cache
      ELSE ret = None /\ arg.key \notin DOMAIN cache

\* A get has returned a bundle that was set some time before.
C25_Witness ==
  /\ fn = "get"
  /\ arg.key \in DOMAIN lastSet
  /\ arg.at > lastSet[arg.key].ts
  /\ lastSet[arg.key].bundle \in Bundles
  /\ ret = Some(lastSet[arg.key].bundle)

\* A step that sets a key the cache does not hold while it holds 100 entries
\* removes one entry, none being older than it, puts the new one in and
\* leaves the others as they are.
C26_EvictsOldestOnly ==
  (/\ fn' = "set" /\ now' = now
   /\ arg'.key \notin DOMAIN cache
   /\ Cardinality(DOMAIN cache) = CACHE_MAX) =>
    \E o \in DOMAIN cache :
      /\ \A j \in DOMAIN cache : cache[o].ts <= cache[j].ts
      /\ DOMAIN cache' = (DOMAIN cache \ {o}) \cup {arg'.key}
      /\ \A j \in DOMAIN cache \ {o} : cache'[j] = cache[j]

\* C26: the cache never holds more than 100 entries: setting a new key while
\* it holds 100 evicts exactly one entry, one with the oldest timestamp, and
\* leaves all the others unchanged.
C26_NeverMoreThanMax ==
  /\ [](Cardinality(DOMAIN cache) <= CACHE_MAX)
  /\ [][C26_EvictsOldestOnly]_vars

\* A new key has been set while the cache was full, and an entry evicted.
C26_Witness ==
  /\ fn = "set"
  /\ arg.key > CACHE_MAX
  /\ arg.at = lastSet[arg.key].ts
  /\ Cardinality(DOMAIN cache) = CACHE_MAX
  /\ \E k \in DOMAIN lastSet : lastSet[k].evicted

AnsweredFor(k) ==
  LET a == answer[CHOOSE n \in 1..Len(answer) : answer[n].item = k]
  IN IF a.raised = "none" /\ a.resp.status = 200 /\ a.resp.wellformed
       THEN a.resp.scores ELSE [x \in {} |-> 0]

\* The items, in their order, for which some answered score is 0.7 or more.
RECURSIVE KeptFrom(_)
KeptFrom(k) ==
  IF k > Len(items[1]) THEN <<>>
  ELSE (IF \E x \in DOMAIN AnsweredFor(k) : AnsweredFor(k)[x] >= 70 THEN <<k>> ELSE <<>>)
         \o KeptFrom(k + 1)

\* C28: the scores in an item's flagged record are those the classifier
\* returned for the request made for that same item, in whatever order the
\* requests ended: the records are those of the items with a score at the
\* threshold, in the items' order, each with its own answer's scores.
C28_ScoresMatchedByPosition ==
  (rpc \in {"write", "done"} /\ rres # None) =>
    /\ Len(rres[1]) = Len(KeptFrom(1))
    /\ \A n \in 1..Len(rres[1]) :
         /\ rres[1][n].scores = AnsweredFor(KeptFrom(1)[n])
         /\ rres[1][n].type = items[1][KeptFrom(1)[n]].kind

\* Two items of the same text: the second one's request ended first, the
\* first item's answer was below the threshold and the second one's at it.
C28_Witness ==
  /\ rpc = "done" /\ rres # None
  /\ Len(answer) >= 2
  /\ answer[1].item = 2 /\ answer[2].item = 1
  /\ items[1][1].text = items[1][2].text
  /\ KeptFrom(1) = <<2>>
  /\ Len(rres[1]) = 1

\* C29: the content of every flagged record is the first 500 characters of
\* its item's body, the whole body if that is shorter, and the text sent to
\* the classifier for an item is its whole body.
C29_ContentCutTextSentWhole ==
  /\ \A n \in 1..Len(answer) : answer[n].sent = items[1][answer[n].item].text
  /\ (rpc \in {"write", "done"} /\ rres # None) =>
       \A n \in 1..Len(rres[1]) :
         LET body == items[1][KeptFrom(1)[n]].text
         IN /\ n <= Len(KeptFrom(1))
            /\ Len(rres[1][n].content) = (IF Len(body) < 500 THEN Len(body) ELSE 500)
            /\ \A c \in 1..Len(rres[1][n].content) : rres[1][n].content[c] = body[c]

\* A body of 501 characters was sent whole and is kept, cut to 500, in the
\* only flagged record.
C29_Witness ==
  /\ rpc = "done" /\ rres # None
  /\ Len(rres[1]) = 1
  /\ Len(rres[1][1].content) = 500
  /\ Len(items[1][KeptFrom(1)[1]].text) = 501
  /\ \E n \in 1..Len(answer) : answer[n].item = KeptFrom(1)[1] /\ Len(answer[n].sent) = 501

\* The classification requests in flight: issued by client.post and not yet
\* answered.
InFlight == {k \in DOMAIN cpc : cpc[k] = "post"}

\* C30: while a content sub-scan classifies its items, no more than 5
\* classification requests are in flight at the same time, however many items
\* were fetched.
C30_AtMostFiveInFlight ==
  rpc = "classify" => Cardinality(InFlight) <= 5

\* C31: no report file is written before the bundle has been assembled from
\* all the started sub-scans: while the entry point still awaits its
\* sub-scans, and after a timeout or a cancellation has ended it there, no
\* report file has been created or modified.
C31_NoReportBeforeBundle ==
  pc \in {"gather", "cancelled"} => NoFileTouched

\* C32: every record in the list the enumeration adapter returns has a
\* status that _is_claimed classifies as claimed; a record whose status is
\* not claimed is never included.
C32_RecordsAreClaimed ==
  (fn = "_parse_stdout" /\ ret # None) =>
    \A n \in 1..Len(ret[1]) : _is_claimed(ret[1][n].status)

\* Lines that give two records, one of them for Twitter, were parsed.
C32_Witness ==
  /\ fn = "_parse_stdout" /\ ret # None
  /\ Len(ret[1]) = 2
  /\ \E n \in 1..Len(ret[1]) : ret[1][n].platform = <<"T", "w", "i", "t", "t", "e", "r">>

\* An argument of the enumeration tool's command that is one of its options.
IsOption(a) == StartsWith(a, <<"-", "-">>) /\ Len(a) > 2

\* C33: in the argument list the enumeration subprocess is launched with, an
\* explicit separator "--" precedes the identity, and every option precedes
\* that separator, so that an identity beginning with "-" is not read as a
\* flag.
C33_SeparatorBeforeIdentity ==
  (fn = "scan" /\ ret # None) =>
    LET c == ret[1].cmd
    IN \E s \in 1..Len(c) :
         /\ c[s] = <<"-", "-">>
         /\ \E u \in (s + 1)..Len(c) : c[u] = arg
         /\ \A k \in 1..Len(c) : IsOption(c[k]) => k < s

\* C34: when both sub-scans run, the bundle's sherlock field holds what the
\* enumeration sub-scan returned and its reddit field what the content
\* sub-scan returned (None for one that raised), in whatever order the two
\* ended; neither result is stored in the other's field.
C34_ResultsInOwnFields ==
  (entry = "api" /\ pc = "returned" /\ InTasks("sherlock", tasks) /\ InTasks("reddit", tasks)) =>
    /\ results.sherlock = (IF spc = "done" THEN sres ELSE None)
    /\ results.reddit = (IF rpc = "done" THEN rres ELSE None)

\* Both sub-scans ran and each found something: the claimed accounts are in
\* the sherlock field and the flagged items in the reddit field.
C34_Witness ==
  /\ entry = "api" /\ pc = "returned"
  /\ InTasks("sherlock", tasks) /\ InTasks("reddit", tasks)
  /\ FoundSome(sres) /\ FoundSome(rres)
  /\ sres # rres
  /\ results.sherlock = sres
  /\ results.reddit = rres

\* C35: after update_cooldown(u) at time t, check_cooldown(u) at a time
\* `now` reports the user on cooldown with 30 - (now - t) seconds remaining
\* while now < t + 30, and not on cooldown from t + 30 on, whatever the
\* other users do; and of the slash-command scans of one user that pass the
\* cooldown check and go on, no two are less than 30 seconds apart.
C35_OneScanPerWindow ==
  /\ (fn \in {"check_cooldown", "scan_slash"} /\ arg.updated # -1) =>
       ret[1] = (IF arg.at - arg.updated < 30
                   THEN <<TRUE, 30 - (arg.at - arg.updated)>>
                   ELSE <<FALSE, 0>>)
  /\ \A u \in DOMAIN accepted :
       \A i, j \in 1..Len(accepted[u]) :
         i < j => accepted[u][j] - accepted[u][i] >= 30

\* A user whose scan was accepted at 0 and whose cooldown was updated again
\* at 10 asks at 30, when the queue's entry of 0 has expired and been
\* popped, and is told to wait 10 seconds; the other user has been accepted
\* meanwhile.
C35_Witness ==
  /\ fn = "check_cooldown"
  /\ accepted[arg.user] = <<0>>
  /\ arg.updated = 10 /\ arg.at = 30
  /\ ret[1] = <<TRUE, 10>>
  /\ \E u \in DOMAIN accepted : u # arg.user /\ accepted[u] # <<>>
  /\ \A k \in 1..Len(_cooldown_queue) : _cooldown_queue[k][1] # 0

\* C36: every user id in the cooldown map has a queue entry carrying exactly
\* the map's timestamp for that user, and right after check_cooldown has
\* returned the map holds no entry that is 30 seconds old or older.
C36_MapMirrorsQueue ==
  /\ \A u \in DOMAIN _scan_cooldowns :
       \E k \in 1..Len(_cooldown_queue) : _cooldown_queue[k] = <<_scan_cooldowns[u], u>>
  /\ (fn \in {"check_cooldown", "scan_slash"} /\ arg.at = now) =>
       \A u \in DOMAIN _scan_cooldowns : now - _scan_cooldowns[u] < 30

\* check_cooldown has just dropped a user whose entry was exactly 30 seconds
\* old and kept the one of a user updated later.
C36_Witness ==
  /\ fn = "check_cooldown" /\ arg.at = now
  /\ arg.updated = now - 30
  /\ arg.user \notin DOMAIN _scan_cooldowns
  /\ DOMAIN _scan_cooldowns # {}
  /\ ret[1] = <<FALSE, 0>>

\* The terminal outcomes of an accepted request.
Outcome == {ResultEmbed, TimedOutMessage, ScanFailedMessage}

\* C37: a bot scan request that has passed the checks of its length, mode,
\* configuration and availability has, when the command has ended, invoked
\* scan_user and been answered with exactly one terminal outcome: the result
\* embed, the timed-out message or the scan-failed message.
C37_AcceptedEndsWithOneOutcome ==
  (bot = "returned" /\ msgs # <<>> /\ msgs[1] = ScanningMessage) =>
    /\ pc # "none"
    /\ Cardinality({k \in 1..Len(msgs) : msgs[k] \in Outcome}) = 1

\* C38: whenever SherlockScanner.scan has stopped running, by returning, by
\* its own timeout, by an error return or by being cancelled from outside,
\* the subprocess it launched has exited or been killed.
C38_NoSubprocessOutlivesScan ==
  spc \in {"done", "failed", "cancelled"} => proc # "running"

\* C39: when the write of the flagged-content report fails after items were
\* flagged, scan_user is not left by the error, and the bundle it returns
\* has the error recorded once as "reddit failed", its reddit field None,
\* the flagged items being returned nowhere, and its sherlock field as the
\* enumeration sub-scan left it.
C39_WriteFailureRecorded ==
  (entry = "api" /\ rpc = "failed" /\ ~cancel_requested) =>
    /\ Flagged(items[1], scores, 1) # <<>>
    /\ rres = None
    /\ pc \in {"gather", "returned"}
    /\ pc = "returned" =>
         /\ results.reddit = None
         /\ Cardinality({k \in 1..Len(results.errors) : results.errors[k] = "reddit failed"}) = 1
         /\ results.sherlock = (IF InTasks("sherlock", tasks) THEN sres ELSE None)
         /\ ~HasError("sherlock failed")

\* An item was flagged, the report's write broke off and left a file cut
\* short, and the bundle returned holds the accounts the enumeration found.
C39_Witness ==
  /\ entry = "api" /\ pc = "returned" /\ rpc = "failed"
  /\ Flagged(items[1], scores, 1) # <<>>
  /\ files.reddit = "partial"
  /\ results.reddit = None /\ HasError("reddit failed")
  /\ InTasks("sherlock", tasks) /\ FoundSome(sres) /\ results.sherlock = sres

====
